---- MODULE Spec2Model ----
(***************************************************************************)
(* The data-access middleware of agri-shield-frontend (lib/middleware):    *)
(* rate limiter, read-through cache, retry policy, timeout guard and       *)
(* metrics log, wrapped around the calls to the remote backend.            *)
(*                                                                         *)
(* A gateway call is a JavaScript async function.  Its synchronous prefix  *)
(* (admission check, cache lookup, issuing the request) is one step; every *)
(* later step is the macrotask that settles an await (network reply,       *)
(* timeout timer, backoff timer) together with the continuations it runs.  *)
(* Time is the millisecond clock `now` (Date.now()).                       *)
(* On top of the gateway sit the sign-out wrappers of the auth context and *)
(* of the session manager, which hold the session, the user role and the   *)
(* agrishield-session cookie.                                              *)
(***************************************************************************)
EXTENDS Integers, Sequences, FiniteSets, TLC

VARIABLES
  now,             \* Date.now()
  requestCache,    \* Map<string, {data, timestamp}>
  rateLimitMap,    \* Map<string, number[]>
  requestMetrics,  \* RequestMetrics[]
  db,              \* remote store: per table, the number of mutations applied
  call,            \* per call slot, the frame of the gateway call in flight
  history,         \* the calls that have returned, in order of return
  started,         \* number of gateway calls started so far
  abandoned,       \* requests whose attempt timed out, still with the backend
  app,             \* AuthProvider / useSessionManager state and document.cookie
  snapshots        \* the arrays getMetrics() has handed to its callers

vars == <<now, requestCache, rateLimitMap, requestMetrics, db, call, history, started,
          abandoned, app, snapshots>>

\* ------------------------------------------------------------------ bounds
MaxCalls == 2
MaxCacheCalls == 3
MaxRetryCalls == 1
MaxOutcomeCalls == 1
MaxTimeoutCalls == 2
MaxLiveCalls == 1
MaxConcCalls == 2
MaxFrameCalls == 3
MaxRaceCalls == 3
MaxRemoteWrites == 1
MaxRaceClock == 1
MaxBurstWarmUp == 99
MaxBurstCalls == 102
MaxBurstClock == 60000
MaxColumnCalls == 3
MaxCreateCalls == 2
MaxNoRetryCalls == 2
MaxEnvelopeCalls == 102
MaxProfileCalls == 2
MaxHops == 3
MaxSnapshotCalls == 3
MaxSnapshots == 1
MaxEdits == 2
MaxSignOutCalls == 2
MaxWarmUpCalls == 999
MaxOverflow == 3
MaxRateCalls == 152
BurstSize == 50
MaxClock == 600000
MaxRateClock == 90000

\* --------------------------------------------------------------- constants
RATE_LIMIT_REQUESTS == 100
RATE_LIMIT_WINDOW == 60000
METRICS_CAPACITY == 1000
BACKOFF_UNIT == 1000
FALLBACK_TIMEOUT == 30000
FALLBACK_MAX_RETRIES == 3

DEFAULT_OPTIONS ==
  [logRequests |-> TRUE, enableRetry |-> TRUE, maxRetries |-> 3,
   timeout |-> 30000, cache |-> TRUE, cacheDuration |-> 300000]

Slots == {1, 2}
Tables == {"users", "lands"}
CrudKinds == {"select", "insert", "update", "delete"}
MutationKinds == {"insert", "update", "delete"}
AuthKinds == {"signin", "signup", "signout"}

NoError == "null"
NoDeadline == -1
NullData == [tag |-> "null", table |-> "", columns |-> "", where |-> {}, version |-> 0]
UndefinedData ==
  [tag |-> "undefined", table |-> "", columns |-> "", where |-> {}, version |-> 0]

\* `a || b` on numbers: 0 is falsy
OrElse(a, b) == IF a = 0 THEN b ELSE a

Max(a, b) == IF a >= b THEN a ELSE b

RECURSIVE Pow2(_)
Pow2(n) == IF n = 0 THEN 1 ELSE 2 * Pow2(n - 1)

\* { ...DEFAULT_OPTIONS, ...options }: the fields present in options win
mergedOptions(options) == options @@ DEFAULT_OPTIONS

\* JSON.stringify of a filter object: its properties in insertion order.
\* A filter object is the sequence of its <<key, value>> properties in the
\* order they were inserted; strings are sequences of tokens.
RECURSIVE stringifyProps(_)
stringifyProps(props) ==
  IF props = <<>> THEN <<>>
  ELSE <<"\"", props[1][1], "\"", ":", props[1][2]>>
       \o (IF Len(props) > 1 THEN <<",">> ELSE <<>>)
       \o stringifyProps(Tail(props))

JSONstringify(params) == <<"{">> \o stringifyProps(params) \o <<"}">>

generateCacheKey(table, operation, params) ==
  <<table, ":", operation, ":">> \o JSONstringify(params)

\* key.startsWith(`${table}:`)
startsWithTable(key, table) == SubSeq(key, 1, 2) = <<table, ":">>

rateKey(table, operation) == <<table, ":", operation>>

\* checkRateLimit with the ceiling test off by one: 101 calls per window
checkRateLimitOverCeiling(key, t) ==
  LET timestamps == IF key \in DOMAIN rateLimitMap THEN rateLimitMap[key] ELSE <<>>
      validTimestamps == SelectSeq(timestamps, LAMBDA ts : t - ts < RATE_LIMIT_WINDOW)
  IN IF Len(validTimestamps) > RATE_LIMIT_REQUESTS
     THEN [ok |-> FALSE, map |-> rateLimitMap]
     ELSE [ok |-> TRUE,
           map |-> [k \in DOMAIN rateLimitMap \cup {key} |->
                      IF k = key THEN Append(validTimestamps, t) ELSE rateLimitMap[k]]]

\* checkRateLimit storing the window without having pruned it
checkRateLimitKeepsStale(key, t) ==
  LET timestamps == IF key \in DOMAIN rateLimitMap THEN rateLimitMap[key] ELSE <<>>
      validTimestamps == SelectSeq(timestamps, LAMBDA ts : t - ts < RATE_LIMIT_WINDOW)
  IN IF Len(validTimestamps) >= RATE_LIMIT_REQUESTS
     THEN [ok |-> FALSE, map |-> rateLimitMap]
     ELSE [ok |-> TRUE,
           map |-> [k \in DOMAIN rateLimitMap \cup {key} |->
                      IF k = key THEN Append(timestamps, t) ELSE rateLimitMap[k]]]

\* checkRateLimit recording the timestamp of a denied call as well
checkRateLimitRecordsDenied(key, t) ==
  LET timestamps == IF key \in DOMAIN rateLimitMap THEN rateLimitMap[key] ELSE <<>>
      validTimestamps == SelectSeq(timestamps, LAMBDA ts : t - ts < RATE_LIMIT_WINDOW)
  IN [ok |-> Len(validTimestamps) < RATE_LIMIT_REQUESTS,
      map |-> [k \in DOMAIN rateLimitMap \cup {key} |->
                 IF k = key THEN Append(validTimestamps, t) ELSE rateLimitMap[k]]]

\* checkRateLimit counting without the timestamps of the calls still in
\* flight, as a check whose append ran only after the awaited request would
checkRateLimitSkipsInFlight(key, t) ==
  LET timestamps == IF key \in DOMAIN rateLimitMap THEN rateLimitMap[key] ELSE <<>>
      validTimestamps == SelectSeq(timestamps, LAMBDA ts : t - ts < RATE_LIMIT_WINDOW)
      inFlight == Cardinality({c \in Slots : /\ call[c].pc # "idle"
                                              /\ rateKey(call[c].table, call[c].kind) = key})
  IN IF Len(validTimestamps) - inFlight >= RATE_LIMIT_REQUESTS
     THEN [ok |-> FALSE, map |-> rateLimitMap]
     ELSE [ok |-> TRUE,
           map |-> [k \in DOMAIN rateLimitMap \cup {key} |->
                      IF k = key THEN Append(validTimestamps, t) ELSE rateLimitMap[k]]]

\* checkRateLimit: the verdict and the map it leaves behind
checkRateLimit(key, t) ==
  LET timestamps == IF key \in DOMAIN rateLimitMap THEN rateLimitMap[key] ELSE <<>>
      validTimestamps == SelectSeq(timestamps, LAMBDA ts : t - ts < RATE_LIMIT_WINDOW)
  IN IF Len(validTimestamps) >= RATE_LIMIT_REQUESTS
     THEN [ok |-> FALSE, map |-> rateLimitMap]
     ELSE [ok |-> TRUE,
           map |-> [k \in DOMAIN rateLimitMap \cup {key} |->
                      IF k = key THEN Append(validTimestamps, t) ELSE rateLimitMap[k]]]

\* logMetric dropping the newest record on overflow
logMetricDropsNewest(metrics, t, method, table, duration, status, error) ==
  LET pushed == Append(metrics, [method |-> method, table |-> table, timestamp |-> t,
                                 duration |-> duration, status |-> status, error |-> error])
  IN IF Len(pushed) > METRICS_CAPACITY THEN SubSeq(pushed, 1, METRICS_CAPACITY) ELSE pushed

\* requestMetrics.push(metric), then shift() once the log exceeds 1000 records
logMetric(metrics, t, method, table, duration, status, error) ==
  LET pushed == Append(metrics, [method |-> method, table |-> table, timestamp |-> t,
                                 duration |-> duration, status |-> status, error |-> error])
  IN IF Len(pushed) > METRICS_CAPACITY THEN Tail(pushed) ELSE pushed

\* cacheSet that keeps the timestamp of the entry it overwrites
cacheSetKeepsTimestamp(cache, key, data, ts) ==
  [k \in DOMAIN cache \cup {key} |->
     IF k = key
     THEN [data |-> data, timestamp |-> IF key \in DOMAIN cache THEN cache[key].timestamp ELSE ts]
     ELSE cache[k]]

\* requestCache.set(cacheKey, { data, timestamp })
cacheSet(cache, key, data, ts) ==
  [k \in DOMAIN cache \cup {key} |->
     IF k = key THEN [data |-> data, timestamp |-> ts] ELSE cache[k]]

\* invalidateTable that deletes nothing
invalidateNothing(cache, table) == cache

\* invalidateTable that deletes the entries of every table
invalidateEverything(cache, table) ==
  [k \in {q \in DOMAIN cache : FALSE} |-> cache[k]]

\* the loop that deletes every key starting with `${table}:`
invalidateTable(cache, table) ==
  [k \in {q \in DOMAIN cache : ~startsWithTable(q, table)} |-> cache[k]]

\* cacheHit with the comparison made inclusive: an entry exactly
\* cacheDuration old still counts as fresh
cacheHitInclusive(cache, key, t, duration) ==
  key \in DOMAIN cache /\ t - cache[key].timestamp <= duration

\* cacheHit with the comparison flipped: only a stale entry counts as a hit
cacheHitInverted(cache, key, t, duration) ==
  key \in DOMAIN cache /\ t - cache[key].timestamp > duration

\* withCache's test `cached && now - cached.timestamp < duration`
cacheHit(cache, key, t, duration) ==
  key \in DOMAIN cache /\ t - cache[key].timestamp < duration

\* what the remote store answers to a select
selectPayload(table, columns, filters) ==
  [tag |-> "rows", table |-> table, columns |-> columns,
   where |-> {filters[i] : i \in DOMAIN filters}, version |-> db[table]]

mutationPayload(table, version) ==
  [tag |-> "written", table |-> table, columns |-> "", where |-> {}, version |-> version]

sessionPayload ==
  [tag |-> "session", table |-> "", columns |-> "", where |-> {}, version |-> 0]

Method(kind) ==
  CASE kind = "select" -> "SELECT"
    [] kind = "insert" -> "INSERT"
    [] kind = "update" -> "UPDATE"
    [] kind = "delete" -> "DELETE"
    [] kind = "signin" -> "AUTH:SIGNIN"
    [] kind = "signup" -> "AUTH:SIGNUP"
    [] kind = "signout" -> "AUTH:SIGNOUT"

FailureMessage(kind) ==
  CASE kind = "signin" -> "Failed to sign in"
    [] kind = "signup" -> "Failed to sign up"
    [] kind = "signout" -> "Failed to sign out"
    [] OTHER -> "backend error"

IdleCall ==
  [pc |-> "idle", kind |-> "select", table |-> "", columns |-> "*", filters |-> <<>>,
   opts |-> DEFAULT_OPTIONS, startTime |-> 0, attempt |-> 0, lastError |-> NoError,
   cacheKey |-> <<>>, cacheNow |-> 0, deadline |-> NoDeadline, wake |-> 0,
   hitData |-> NullData, netCalls |-> 0, invocations |-> 0, sleeps |-> <<>>,
   id |-> 0, awaited |-> TRUE, served |-> FALSE, servedVersion |-> 0]

\* what a function of the auth context was last called with, by which role,
\* and how many gateway calls had been started before
NoRequest ==
  [fn |-> "none", session |-> "null", role |-> "null", newRole |-> "", updates |-> <<>>,
   before |-> 0]

\* the browser has requested no page yet
NoNavigation == [state |-> "idle", asked |-> <<>>, path |-> <<>>, redirect |-> <<>>, hops |-> 0]

\* no session: nobody is signed in, no sign-out wrapper is running
SignedOut ==
  [session |-> "null", userRole |-> "null", cookie |-> "",
   pending |-> "none", finished |-> "none", outcome |-> "none",
   username |-> "", email |-> "", thrown |-> "", asked |-> NoRequest, sent |-> <<>>,
   jar |-> {}, nav |-> NoNavigation]

Init ==
  /\ now = 0
  /\ requestCache = <<>>
  /\ rateLimitMap = <<>>
  /\ requestMetrics = <<>>
  /\ db = [t \in Tables |-> 0]
  /\ call = [c \in Slots |-> IdleCall]
  /\ history = <<>>
  /\ started = 0
  /\ abandoned = {}
  /\ app = SignedOut
  /\ snapshots = <<>>

\* ------------------------------------------------------- returning a call
Envelope(data, error, status, timestamp, duration, retries) ==
  [data |-> data, error |-> error, status |-> status,
   timestamp |-> timestamp, duration |-> duration, retries |-> retries]

\* the call in slot c returns env to its caller at time t, leaving the cache
\* as cacheLeft
Return(c, r, env, admitted, cacheLeft, t) ==
  /\ call' = [call EXCEPT ![c] = IdleCall]
  /\ history' = Append(history,
       [slot |-> c, kind |-> r.kind, table |-> r.table, columns |-> r.columns,
        filters |-> r.filters, cacheKey |-> r.cacheKey, opts |-> r.opts,
        admitted |-> admitted, env |-> env, netCalls |-> r.netCalls,
        invocations |-> r.invocations, sleeps |-> r.sleeps,
        cacheNow |-> r.cacheNow, cache |-> cacheLeft, returnedAt |-> t,
        id |-> r.id, deadline |-> r.deadline, awaited |-> r.awaited,
        startedBefore |-> started])

\* the record logMetric appends when the call of history entry h returns
MetricOf(h) ==
  [method |-> Method(h.kind), table |-> h.table, timestamp |-> h.returnedAt,
   duration |-> h.env.duration,
   status |-> IF ~h.admitted THEN "rate_limited"
              ELSE IF h.env.status = "success" THEN "success" ELSE "error",
   error |-> h.env.error]

\* returnRateLimited reporting the retry budget as retries used
returnRateLimitedCountsBudget(c, r) ==
  /\ requestMetrics' = logMetric(requestMetrics, now, Method(r.kind), r.table, 0,
                                 "rate_limited", "Rate limit exceeded")
  /\ Return(c, r, Envelope(NullData, "Rate limit exceeded", "error", r.startTime, 0,
                           r.opts.maxRetries),
            FALSE, requestCache, now)

\* the rate-limited branch of the four CRUD operations
returnRateLimited(c, r) ==
  /\ requestMetrics' = logMetric(requestMetrics, now, Method(r.kind), r.table, 0,
                                 "rate_limited", "Rate limit exceeded")
  /\ Return(c, r, Envelope(NullData, "Rate limit exceeded", "error", r.startTime, 0, 0),
            FALSE, requestCache, now)

\* returnFailure rethrowing the error instead of returning an envelope
returnFailureThrows(c, r, error, retries, t) ==
  LET duration == t - r.startTime
  IN /\ requestMetrics' = logMetric(requestMetrics, t, Method(r.kind), r.table,
                                    duration, "error", error)
     /\ requestCache' = requestCache
     /\ Return(c, r, Envelope(NullData, error, "thrown", r.startTime, duration, retries),
               TRUE, requestCache, t)

\* the `if (error)` branch after withRetry
returnFailure(c, r, error, retries, t) ==
  LET duration == t - r.startTime
      status == IF r.kind \in CrudKinds
                THEN (IF retries >= OrElse(r.opts.maxRetries, FALLBACK_MAX_RETRIES)
                      THEN "retry_exhausted" ELSE "error")
                ELSE "error"
  IN /\ requestMetrics' = logMetric(requestMetrics, t, Method(r.kind), r.table,
                                    duration, "error", error)
     /\ requestCache' = requestCache
     /\ Return(c, r, Envelope(NullData, error, status, r.startTime, duration, retries),
               TRUE, requestCache, t)

\* returnSuccess reporting the number of attempts instead of the retries
returnSuccessCountsAttempts(c, r, data, cache1, t) ==
  LET duration == t - r.startTime
      out == IF r.kind \in {"delete", "signout"} THEN UndefinedData ELSE data
      cache2 == CASE r.kind \in MutationKinds -> invalidateTable(cache1, r.table)
                  [] r.kind = "signout" -> <<>>
                  [] OTHER -> cache1
  IN /\ requestMetrics' = logMetric(requestMetrics, t, Method(r.kind), r.table,
                                    duration, "success", NoError)
     /\ requestCache' = cache2
     /\ Return(c, r, Envelope(out, NoError, "success", r.startTime, duration, r.attempt + 1),
               TRUE, cache2, t)

\* returnSuccess appending the metric record only when logRequests is on
returnSuccessLogsOnRequest(c, r, data, cache1, t) ==
  LET duration == t - r.startTime
      out == IF r.kind \in {"delete", "signout"} THEN UndefinedData ELSE data
      cache2 == CASE r.kind \in MutationKinds -> invalidateTable(cache1, r.table)
                  [] r.kind = "signout" -> <<>>
                  [] OTHER -> cache1
  IN /\ requestMetrics' = IF r.opts.logRequests
                          THEN logMetric(requestMetrics, t, Method(r.kind), r.table,
                                         duration, "success", NoError)
                          ELSE requestMetrics
     /\ requestCache' = cache2
     /\ Return(c, r, Envelope(out, NoError, "success", r.startTime, duration, r.attempt),
               TRUE, cache2, t)

\* the success branch after withRetry; cache1 is the cache as withCache left it
returnSuccess(c, r, data, cache1, t) ==
  LET duration == t - r.startTime
      out == IF r.kind \in {"delete", "signout"} THEN UndefinedData ELSE data
      cache2 == CASE r.kind \in MutationKinds -> invalidateTable(cache1, r.table)
                  [] r.kind = "signout" -> <<>>
                  [] OTHER -> cache1
  IN /\ requestMetrics' = logMetric(requestMetrics, t, Method(r.kind), r.table,
                                    duration, "success", NoError)
     /\ requestCache' = cache2
     /\ Return(c, r, Envelope(out, NoError, "success", r.startTime, duration, r.attempt),
               TRUE, cache2, t)

\* ------------------------------------------------- withRetry / withCache
\* invokeFn with every request issued without withTimeout
invokeFnNoTimeout(r, t) ==
  LET cached == r.kind = "select" /\ r.opts.cache
  IN IF cached /\ cacheHit(requestCache, r.cacheKey, t, r.opts.cacheDuration)
     THEN [r EXCEPT !.pc = "hit", !.cacheNow = t,
                    !.hitData = requestCache[r.cacheKey].data,
                    !.invocations = @ + 1]
     ELSE [r EXCEPT !.pc = "waiting",
                    !.cacheNow = IF cached THEN t ELSE @,
                    !.deadline = NoDeadline,
                    !.netCalls = @ + 1, !.invocations = @ + 1,
                    !.served = FALSE]

\* invokeFn with every read going through withCache
invokeFnAlwaysCached(r, t) ==
  LET cached == r.kind = "select"
  IN IF cached /\ cacheHit(requestCache, r.cacheKey, t, r.opts.cacheDuration)
     THEN [r EXCEPT !.pc = "hit", !.cacheNow = t,
                    !.hitData = requestCache[r.cacheKey].data,
                    !.invocations = @ + 1]
     ELSE [r EXCEPT !.pc = "waiting",
                    !.cacheNow = IF cached THEN t ELSE @,
                    !.deadline = IF r.kind \in CrudKinds
                                 THEN t + OrElse(r.opts.timeout, FALLBACK_TIMEOUT)
                                 ELSE NoDeadline,
                    !.netCalls = @ + 1, !.invocations = @ + 1,
                    !.served = FALSE]

\* withRetry calls fn() for attempt r.attempt at time t.  For a select with
\* caching on, fn is withCache: a fresh entry settles the attempt at once,
\* otherwise executeQuery issues the request under withTimeout.  The auth
\* operations issue their fetch without withTimeout.
invokeFn(r, t) ==
  LET cached == r.kind = "select" /\ r.opts.cache
  IN IF cached /\ cacheHit(requestCache, r.cacheKey, t, r.opts.cacheDuration)
     THEN [r EXCEPT !.pc = "hit", !.cacheNow = t,
                    !.hitData = requestCache[r.cacheKey].data,
                    !.invocations = @ + 1]
     ELSE [r EXCEPT !.pc = "waiting",
                    !.cacheNow = IF cached THEN t ELSE @,
                    !.deadline = IF r.kind \in CrudKinds
                                 THEN t + OrElse(r.opts.timeout, FALLBACK_TIMEOUT)
                                 ELSE NoDeadline,
                    !.netCalls = @ + 1, !.invocations = @ + 1,
                    !.served = FALSE]

\* attemptFailed with a linear backoff: 1000, 2000, 3000, ...
attemptFailedLinear(c, error, t) ==
  LET r == call[c]
      backoffDelay == (r.attempt + 1) * BACKOFF_UNIT
  IN IF r.attempt < r.opts.maxRetries
     THEN /\ call' = [call EXCEPT ![c] =
                 [r EXCEPT !.pc = "backoff", !.lastError = error,
                           !.wake = t + backoffDelay,
                           !.sleeps = Append(@, backoffDelay)]]
          /\ UNCHANGED <<requestMetrics, requestCache, history>>
     ELSE returnFailure(c, r, error, r.opts.maxRetries, t)

\* attemptFailed with the loop bound off by one: one attempt too many
attemptFailedOneMore(c, error, t) ==
  LET r == call[c]
      backoffDelay == Pow2(r.attempt) * BACKOFF_UNIT
  IN IF r.attempt <= r.opts.maxRetries
     THEN /\ call' = [call EXCEPT ![c] =
                 [r EXCEPT !.pc = "backoff", !.lastError = error,
                           !.wake = t + backoffDelay,
                           !.sleeps = Append(@, backoffDelay)]]
          /\ UNCHANGED <<requestMetrics, requestCache, history>>
     ELSE returnFailure(c, r, error, r.opts.maxRetries, t)

\* attemptFailed deleting the entry of the key whose read failed
attemptFailedEvicts(c, error, t) ==
  LET r == call[c]
      backoffDelay == Pow2(r.attempt) * BACKOFF_UNIT
  IN IF r.attempt < r.opts.maxRetries
     THEN /\ call' = [call EXCEPT ![c] =
                 [r EXCEPT !.pc = "backoff", !.lastError = error,
                           !.wake = t + backoffDelay,
                           !.sleeps = Append(@, backoffDelay)]]
          /\ requestCache' = [k \in DOMAIN requestCache \ {r.cacheKey} |-> requestCache[k]]
          /\ UNCHANGED <<requestMetrics, history>>
     ELSE returnFailure(c, r, error, r.opts.maxRetries, t)

\* attemptFailed in which the rejection of withTimeout escapes withRetry and
\* reaches the catch block of the operation
attemptFailedTimeoutEscapes(c, error, t) ==
  LET r == call[c]
      backoffDelay == Pow2(r.attempt) * BACKOFF_UNIT
  IN IF error = "Request timeout"
     THEN /\ requestMetrics' = logMetric(requestMetrics, t, Method(r.kind), r.table,
                                         t - r.startTime, "timeout", error)
          /\ requestCache' = requestCache
          /\ Return(c, r, Envelope(NullData, error, "timeout", r.startTime,
                                   t - r.startTime, 0),
                    TRUE, requestCache, t)
     ELSE IF r.attempt < r.opts.maxRetries
     THEN /\ call' = [call EXCEPT ![c] =
                 [r EXCEPT !.pc = "backoff", !.lastError = error,
                           !.wake = t + backoffDelay,
                           !.sleeps = Append(@, backoffDelay)]]
          /\ UNCHANGED <<requestMetrics, requestCache, history>>
     ELSE returnFailure(c, r, error, r.opts.maxRetries, t)

\* the catch block of withRetry's loop, and the return after the loop
attemptFailed(c, error, t) ==
  LET r == call[c]
      backoffDelay == Pow2(r.attempt) * BACKOFF_UNIT
  IN IF r.attempt < r.opts.maxRetries
     THEN /\ call' = [call EXCEPT ![c] =
                 [r EXCEPT !.pc = "backoff", !.lastError = error,
                           !.wake = t + backoffDelay,
                           !.sleeps = Append(@, backoffDelay)]]
          /\ UNCHANGED <<requestMetrics, requestCache, history>>
     ELSE returnFailure(c, r, error, r.opts.maxRetries, t)

NewCall(kind, table, columns, filters, options) ==
  [IdleCall EXCEPT !.kind = kind, !.table = table, !.columns = columns,
                   !.filters = filters, !.opts = mergedOptions(options),
                   !.startTime = now, !.id = started + 1,
                   !.cacheKey = IF kind = "select"
                                THEN generateCacheKey(table, "select", filters)
                                ELSE <<>>]

\* StartCrud looking into the cache before it asks the limiter
StartCrudCacheFirst(c, kind, table, columns, filters, options) ==
  LET r == NewCall(kind, table, columns, filters, options)
      rl == checkRateLimit(rateKey(table, kind), now)
      hit == /\ kind = "select" /\ r.opts.cache
             /\ cacheHit(requestCache, r.cacheKey, now, r.opts.cacheDuration)
  IN /\ call[c].pc = "idle"
     /\ rateLimitMap' = IF hit THEN rateLimitMap ELSE rl.map
     /\ IF hit \/ rl.ok
        THEN /\ call' = [call EXCEPT ![c] = invokeFn(r, now)]
             /\ UNCHANGED <<requestMetrics, history>>
        ELSE returnRateLimited(c, r)
     /\ started' = started + 1
     /\ UNCHANGED <<now, requestCache, db, abandoned, snapshots>>

\* the common shape of middlewareSelect / Insert / Update / Delete up to the
\* first await
StartCrud(c, kind, table, columns, filters, options) ==
  LET r == NewCall(kind, table, columns, filters, options)
      rl == checkRateLimit(rateKey(table, kind), now)
  IN /\ call[c].pc = "idle"
     /\ rateLimitMap' = rl.map
     /\ IF rl.ok
        THEN /\ call' = [call EXCEPT ![c] = invokeFn(r, now)]
             /\ UNCHANGED <<requestMetrics, history>>
        ELSE returnRateLimited(c, r)
     /\ started' = started + 1
     /\ UNCHANGED <<now, requestCache, db, abandoned, snapshots>>

middlewareSelect(c, table, columns, filters, options) ==
  StartCrud(c, "select", table, columns, filters, options) /\ UNCHANGED app

middlewareInsert(c, table, options) ==
  StartCrud(c, "insert", table, "*", <<>>, options) /\ UNCHANGED app

middlewareUpdate(c, table, options) ==
  StartCrud(c, "update", table, "*", <<>>, options) /\ UNCHANGED app

middlewareDelete(c, table, options) ==
  StartCrud(c, "delete", table, "*", <<>>, options) /\ UNCHANGED app

\* StartAuth passing the admission check of the CRUD operations
StartAuthThroughLimiter(c, kind, options) ==
  /\ call[c].pc = "idle"
  /\ call' = [call EXCEPT ![c] = invokeFn(NewCall(kind, "auth", "*", <<>>, options), now)]
  /\ started' = started + 1
  /\ rateLimitMap' = checkRateLimit(rateKey("auth", kind), now).map
  /\ UNCHANGED <<now, requestCache, requestMetrics, db, history, abandoned, snapshots>>

\* the common shape of middlewareAuthSignIn / SignUp / SignOut up to the
\* first await: no admission check, no cache
StartAuth(c, kind, options) ==
  /\ call[c].pc = "idle"
  /\ call' = [call EXCEPT ![c] = invokeFn(NewCall(kind, "auth", "*", <<>>, options), now)]
  /\ started' = started + 1
  /\ UNCHANGED <<now, requestCache, rateLimitMap, requestMetrics, db, history, abandoned, snapshots>>

middlewareAuthSignIn(c, options) == StartAuth(c, "signin", options) /\ UNCHANGED app

middlewareAuthSignUp(c, options) == StartAuth(c, "signup", options) /\ UNCHANGED app

middlewareAuthSignOut(c, options) == StartAuth(c, "signout", options) /\ UNCHANGED app

\* a cache hit: withCache returned cached.data, the awaits resume
Continue(c) ==
  /\ call[c].pc = "hit"
  /\ returnSuccess(c, call[c], call[c].hitData, requestCache, now)
  /\ UNCHANGED <<now, rateLimitMap, db, started, abandoned, app, snapshots>>

\* the backend evaluates the query of slot c's read; the rows travel back
\* and arrive with Reply (a Reply without this step evaluates on arrival)
BackendReads(c) ==
  /\ call[c].pc = "waiting"
  /\ call[c].kind = "select"
  /\ ~call[c].served
  /\ call' = [call EXCEPT ![c].served = TRUE, ![c].servedVersion = db[call[c].table]]
  /\ UNCHANGED <<now, requestCache, rateLimitMap, requestMetrics, db, history, started,
                 abandoned, app, snapshots>>

\* another client of the remote store writes to table
RemoteWrite(table) ==
  /\ db' = [db EXCEPT ![table] = @ + 1]
  /\ UNCHANGED <<now, requestCache, rateLimitMap, requestMetrics, call, history, started,
                 abandoned, app, snapshots>>

\* the backend answers the request of slot c after lat more milliseconds,
\* before the timeout timer has fired
Reply(c, outcome, lat) ==
  LET r == call[c]
      t == now + lat
  IN /\ r.pc = "waiting"
     /\ t <= MaxClock
     /\ r.deadline = NoDeadline \/ t <= r.deadline
     /\ now' = t
     /\ IF outcome = "ok"
        THEN CASE r.kind = "select" ->
                    LET data == [selectPayload(r.table, r.columns, r.filters) EXCEPT
                                   !.version = IF r.served THEN r.servedVersion ELSE @]
                    IN /\ db' = db
                       /\ returnSuccess(c, r, data,
                            IF r.opts.cache
                            THEN cacheSet(requestCache, r.cacheKey, data, r.cacheNow)
                            ELSE requestCache, t)
               [] r.kind \in MutationKinds ->
                    /\ db' = [db EXCEPT ![r.table] = @ + 1]
                    /\ returnSuccess(c, r, mutationPayload(r.table, db[r.table] + 1),
                                     requestCache, t)
               [] OTHER ->
                    /\ db' = db
                    /\ returnSuccess(c, r, sessionPayload, requestCache, t)
        ELSE /\ db' = db
             /\ attemptFailed(c, IF outcome = "reject" THEN "Failed to fetch"
                                  ELSE FailureMessage(r.kind), t)
     /\ UNCHANGED <<rateLimitMap, started, abandoned, app, snapshots>>

\* the request of r's current attempt, as the backend holds it
Request(r, applied) ==
  [id |-> r.id, attempt |-> r.attempt, kind |-> r.kind, table |-> r.table,
   columns |-> r.columns, filters |-> r.filters, cacheKey |-> r.cacheKey,
   cached |-> (r.kind = "select" /\ r.opts.cache), cacheNow |-> r.cacheNow,
   applied |-> applied]

\* the timer of withTimeout fires: the attempt rejects with "Request timeout".
\* The request stays with the backend, which may or may not have applied it.
TimeoutFire(c, applied) ==
  LET r == call[c]
      t == Max(now, r.deadline)
  IN /\ r.pc = "waiting"
     /\ r.deadline # NoDeadline
     /\ t <= MaxClock
     /\ applied => r.kind \in MutationKinds
     /\ now' = t
     /\ db' = IF applied THEN [db EXCEPT ![r.table] = @ + 1] ELSE db
     /\ attemptFailed(c, "Request timeout", t)
     /\ abandoned' = abandoned \cup {Request(r, applied)}
     /\ UNCHANGED <<rateLimitMap, started, app, snapshots>>

\* the backoff timer fires: the loop of withRetry runs its next attempt
Resume(c) ==
  LET r == call[c]
      t == Max(now, r.wake)
  IN /\ r.pc = "backoff"
     /\ t <= MaxClock
     /\ now' = t
     /\ call' = [call EXCEPT ![c] = invokeFn([r EXCEPT !.attempt = @ + 1], t)]
     /\ UNCHANGED <<requestCache, rateLimitMap, requestMetrics, db, history, started,
                    abandoned, app, snapshots>>

\* LateReply in which the continuation of withCache still runs
LateReplyStoresResult(q, outcome) ==
  /\ q \in abandoned
  /\ abandoned' = abandoned \ {q}
  /\ db' = IF outcome = "ok" /\ q.kind \in MutationKinds /\ ~q.applied
           THEN [db EXCEPT ![q.table] = @ + 1] ELSE db
  /\ requestCache' = IF outcome = "ok" /\ q.cached
                     THEN cacheSet(requestCache, q.cacheKey,
                                   selectPayload(q.table, q.columns, q.filters), q.cacheNow)
                     ELSE requestCache
  /\ UNCHANGED <<now, rateLimitMap, requestMetrics, call, history, started, app, snapshots>>

\* the backend settles a request whose attempt has already timed out: the
\* promise that lost the race of withTimeout settles and nobody awaits it
LateReply(q, outcome) ==
  /\ q \in abandoned
  /\ abandoned' = abandoned \ {q}
  /\ db' = IF outcome = "ok" /\ q.kind \in MutationKinds /\ ~q.applied
           THEN [db EXCEPT ![q.table] = @ + 1] ELSE db
  /\ requestCache' = requestCache
  /\ UNCHANGED <<now, rateLimitMap, requestMetrics, call, history, started, app, snapshots>>

\* the component that awaits the call of slot c unmounts; the call has no
\* cancellation, so nothing of it changes
CallerLeaves(c) ==
  /\ call[c].pc # "idle"
  /\ call[c].awaited
  /\ call' = [call EXCEPT ![c].awaited = FALSE]
  /\ UNCHANGED <<now, requestCache, rateLimitMap, requestMetrics, db, history, started,
                 abandoned, app, snapshots>>

\* ------------------------------------------------ the sign-out wrappers
\* The wrappers await middlewareAuthSignOut; the step of the gateway call that
\* returns is followed by the wrapper's continuation, a step of its own that
\* nothing can precede.

\* the session manager is told of a signed-in session: cookie, session, and
\* (through onSessionValid) the user role are set
onAuthStateChange ==
  /\ app.pending = "none"
  /\ app.session = "null"
  /\ app' = [app EXCEPT !.session = "session", !.userRole = "farmer",
                        !.cookie = "token", !.finished = "none", !.outcome = "none"]
  /\ UNCHANGED <<now, requestCache, rateLimitMap, requestMetrics, db, call, history,
                 started, abandoned, snapshots>>

\* a wrapper calls middlewareAuthSignOut with its default options and awaits it
beginSignOut(c, wrapper) ==
  /\ app.pending = "none"
  /\ StartAuth(c, "signout", <<>>)
  /\ app' = [app EXCEPT !.pending = wrapper, !.finished = "none", !.outcome = "none"]

\* signOut of the auth context that clears the cookie (try / catch / finally)
signOut(c) == beginSignOut(c, "signOut")

\* signOut of contexts/AuthContext.tsx (try / catch that rethrows)
signOutAuthContext(c) == beginSignOut(c, "AuthContext.signOut")

\* handleSignOut of the session manager
handleSignOut(c) == beginSignOut(c, "handleSignOut")

\* handleClearSession with onSessionClear = handleSessionClear, which is also
\* what the finally block of signOut does
handleClearSession(a) == [a EXCEPT !.session = "null", !.userRole = "null", !.cookie = ""]

\* the await of the pending wrapper resumes with the envelope env
afterSignOut(a, env) ==
  LET done == [a EXCEPT !.pending = "none", !.finished = a.pending]
  IN CASE a.pending = "AuthContext.signOut" ->
            IF env.status # "success"
            THEN [done EXCEPT !.outcome = "threw"]
            ELSE [done EXCEPT !.session = "null", !.userRole = "null",
                              !.outcome = "resolved"]
       [] OTHER -> [handleClearSession(done) EXCEPT !.outcome = "resolved"]

signOutContinues(c) ==
  /\ app.pending \in {"signOut", "AuthContext.signOut", "handleSignOut"}
  /\ call[c].pc = "idle"
  /\ app' = afterSignOut(app, history[Len(history)].env)
  /\ UNCHANGED <<now, requestCache, rateLimitMap, requestMetrics, db, call, history,
                 started, abandoned, snapshots>>

\* --------------------------------------- the auth context: role and profile
Roles == {"admin", "agri_officer", "farmer", "viewer"}

\* the session manager reports a session and fetchUserRole stores the profile
\* that /auth/me returned, or stores nothing (role "null") when that fails
sessionValid(role) ==
  /\ app.pending = "none"
  /\ app.session = "null"
  /\ app' = [app EXCEPT !.session = "session", !.cookie = "token", !.userRole = role,
                        !.username = IF role = "null" THEN "" ELSE "bob",
                        !.email = IF role = "null" THEN "" ELSE "bob@mail"]
  /\ UNCHANGED <<now, requestCache, rateLimitMap, requestMetrics, db, call, history,
                 started, abandoned, snapshots>>

\* a function of the auth context throws before its first await
rejectsAtOnce(fn, asked, message) ==
  /\ app' = [app EXCEPT !.finished = fn, !.outcome = "threw", !.thrown = message,
                        !.asked = asked]
  /\ UNCHANGED <<now, requestCache, rateLimitMap, requestMetrics, db, call, history,
                 started, abandoned, snapshots>>

\* a function of the auth context calls middlewareUpdate("users", payload,
\* { id }) with the default options and awaits it
sendsUpdate(c, fn, asked, payload, id) ==
  /\ StartCrud(c, "update", "users", "*", << <<"id", id>> >>, <<>>)
  /\ app' = [app EXCEPT !.pending = fn, !.finished = "none", !.outcome = "none",
                        !.thrown = "", !.asked = asked,
                        !.sent = Append(@, [fn |-> fn, payload |-> payload, id |-> id])]

\* updateUserRole in which an agri_officer may assign every role
mayAssignOfficerAny(role, newRole) == role \in {"admin", "agri_officer"}

\* the two branches of updateUserRole that reach middlewareUpdate
mayAssign(role, newRole) ==
  \/ role = "admin"
  \/ role = "agri_officer" /\ newRole = "farmer"

updateUserRole(c, userId, newRole) ==
  LET asked == [fn |-> "updateUserRole", session |-> app.session, role |-> app.userRole,
                newRole |-> newRole, updates |-> <<>>, before |-> started]
  IN /\ app.pending = "none"
     /\ call[c].pc = "idle"
     /\ IF mayAssign(app.userRole, newRole)
        THEN sendsUpdate(c, "updateUserRole", asked, [role |-> newRole], userId)
        ELSE rejectsAtOnce("updateUserRole", asked,
                           "You do not have permission to change user roles")

\* the fields updateProfile copies into the update
allowedFields ==
  {"email", "phone_number", "address_line_1", "address_line_2", "postal_code",
   "district", "grama_niladhari_division"}

\* the truthiness of a string
Truthy(v) == v # ""

\* updateData that copies every field of updates
updateDataSendsAll(updates) == updates

\* updateData: the allowed fields that are `in updates`
updateData(updates) == [f \in allowedFields \cap DOMAIN updates |-> updates[f]]

\* userRole?.username and userRole?.email
usernameOf(a) == IF a.userRole = "null" THEN "undefined" ELSE a.username
emailOf(a) == IF a.userRole = "null" THEN "undefined" ELSE a.email

\* updates.username && updates.username !== userRole?.username
usernameChanged(updates, a) ==
  /\ "username" \in DOMAIN updates /\ Truthy(updates["username"])
  /\ updates["username"] # usernameOf(a)

\* updates.email && updates.email !== userRole?.email
emailChanged(updates, a) ==
  /\ "email" \in DOMAIN updates /\ Truthy(updates["email"])
  /\ updates["email"] # emailOf(a)

updateProfile(c, updates) ==
  LET asked == [fn |-> "updateProfile", session |-> app.session, role |-> app.userRole,
                newRole |-> "", updates |-> updates, before |-> started]
  IN /\ app.pending = "none"
     /\ call[c].pc = "idle"
     /\ IF app.session = "null"
        THEN rejectsAtOnce("updateProfile", asked, "No authenticated user")
        ELSE IF usernameChanged(updates, app)
        THEN rejectsAtOnce("updateProfile", asked,
                           "Username cannot be changed after account creation")
        ELSE IF emailChanged(updates, app)
        THEN /\ StartCrud(c, "select", "users", "id",
                          << <<"email", updates["email"]>> >>, <<>>)
             /\ app' = [app EXCEPT !.pending = "updateProfile.emailCheck",
                                   !.finished = "none", !.outcome = "none",
                                   !.thrown = "", !.asked = asked]
        ELSE sendsUpdate(c, "updateProfile", asked, updateData(updates), "me")

\* the await of updateUserRole or updateProfile resumes with the envelope of
\* the call that returned; inUse: the rows of the e-mail check hold another user
profileContinues(c, inUse) ==
  LET env == history[Len(history)].env
      done == [app EXCEPT !.pending = "none", !.finished = app.asked.fn]
      data == updateData(app.asked.updates)
  IN /\ app.pending \in {"updateUserRole", "updateProfile", "updateProfile.emailCheck"}
     /\ call[c].pc = "idle"
     /\ IF app.pending = "updateProfile.emailCheck"
        THEN IF env.status = "success" /\ inUse
             THEN /\ app' = [done EXCEPT !.outcome = "threw",
                                          !.thrown = "Email is already in use"]
                  /\ UNCHANGED <<now, requestCache, rateLimitMap, requestMetrics, db, call,
                                 history, started, abandoned, snapshots>>
             ELSE /\ StartCrud(c, "update", "users", "*", << <<"id", "me">> >>, <<>>)
                  /\ app' = [app EXCEPT !.pending = "updateProfile",
                                        !.sent = Append(@, [fn |-> "updateProfile",
                                                            payload |-> data, id |-> "me"])]
        ELSE /\ app' = IF env.status # "success"
                       THEN [done EXCEPT !.outcome = "threw", !.thrown = env.error]
                       ELSE IF app.pending = "updateProfile" /\ "email" \in DOMAIN data
                       THEN [done EXCEPT !.outcome = "resolved", !.email = data["email"]]
                       ELSE [done EXCEPT !.outcome = "resolved"]
             /\ UNCHANGED <<now, requestCache, rateLimitMap, requestMetrics, db, call,
                            history, started, abandoned, snapshots>>

\* ---------------------------------------------------------- the route guard
\* Path names and cookie names are sequences of characters.
PathRoot == <<"/">>
PathLogin == <<"/", "l", "o", "g", "i", "n">>
PathSignup == <<"/", "s", "i", "g", "n", "u", "p">>

PUBLIC_ROUTES == {PathLogin, PathSignup}
IGNORED_ROUTES == {<<"/", "_", "n", "e", "x", "t">>, <<"/", "f", "a", "v", "i", "c", "o", "n", ".", "i", "c", "o">>, <<"/", "a", "p", "i">>}

\* String.prototype.startsWith
startsWith(str, prefix) ==
  Len(prefix) <= Len(str) /\ SubSeq(str, 1, Len(prefix)) = prefix

\* String.prototype.includes
includes(str, part) ==
  \E i \in 1..(Len(str) - Len(part) + 1) : SubSeq(str, i, i + Len(part) - 1) = part

\* hasAuthCookie || hasSessionToken
isAuthenticated(names, sessionCookie) ==
  \/ \E name \in names : includes(name, <<"a", "u", "t", "h", "-", "t", "o", "k", "e", "n">>) \/ includes(name, <<"s", "b", "-">>)
  \/ sessionCookie # ""

NextResponse == [kind |-> "next", to |-> <<>>, redirect |-> <<>>]

\* the guard sending also the public routes of a visitor to /login
middlewareGuardsLogin(pathname, names, sessionCookie) ==
  IF \E route \in IGNORED_ROUTES : startsWith(pathname, route)
  THEN NextResponse
  ELSE IF pathname \in PUBLIC_ROUTES /\ isAuthenticated(names, sessionCookie)
  THEN [kind |-> "redirect", to |-> PathRoot, redirect |-> <<>>]
  ELSE IF ~isAuthenticated(names, sessionCookie)
  THEN [kind |-> "redirect", to |-> PathLogin, redirect |-> pathname]
  ELSE NextResponse

\* middleware(request): NextResponse.next() or a redirect
middleware(pathname, names, sessionCookie) ==
  IF \E route \in IGNORED_ROUTES : startsWith(pathname, route)
  THEN NextResponse
  ELSE IF pathname \in PUBLIC_ROUTES /\ isAuthenticated(names, sessionCookie)
  THEN [kind |-> "redirect", to |-> PathRoot, redirect |-> <<>>]
  ELSE IF pathname \notin PUBLIC_ROUTES /\ ~isAuthenticated(names, sessionCookie)
  THEN [kind |-> "redirect", to |-> PathLogin, redirect |-> pathname]
  ELSE NextResponse

\* the browser requests a page
navigate(pathname) ==
  /\ app.nav.state # "requested"
  /\ app' = [app EXCEPT !.nav = [state |-> "requested", asked |-> pathname,
                                  path |-> pathname, redirect |-> <<>>, hops |-> 0]]
  /\ UNCHANGED <<now, requestCache, rateLimitMap, requestMetrics, db, call, history,
                 started, abandoned, snapshots>>

\* the guard answers the request; the browser follows a redirect by
\* requesting its target with the same cookies
serve ==
  LET response == middleware(app.nav.path, app.jar, app.cookie)
  IN /\ app.nav.state = "requested"
     /\ app.nav.hops < MaxHops
     /\ app' = IF response.kind = "next"
               THEN [app EXCEPT !.nav.state = "passed"]
               ELSE [app EXCEPT !.nav.path = response.to,
                                !.nav.redirect = response.redirect,
                                !.nav.hops = @ + 1]
     /\ UNCHANGED <<now, requestCache, rateLimitMap, requestMetrics, db, call, history,
                    started, abandoned, snapshots>>

\* ------------------------------------------------------------- getMetrics
\* An array a caller holds is either the internal log itself or an array of
\* its own; `aliased` tells which.  What the caller sees in it:
Contents(a) == IF a.aliased THEN requestMetrics ELSE a.items

\* getMetrics handing out the internal array
getMetricsReturnsLog == [aliased |-> TRUE, items |-> <<>>, edits |-> 0]

\* return [...requestMetrics]
getMetrics == [aliased |-> FALSE, items |-> requestMetrics, edits |-> 0]

\* a caller calls getMetrics() and keeps the array
CallGetMetrics ==
  /\ snapshots' = Append(snapshots, getMetrics)
  /\ UNCHANGED <<now, requestCache, rateLimitMap, requestMetrics, db, call, history,
                 started, abandoned, app>>

\* Array.prototype.reverse
Reverse(q) == [i \in DOMAIN q |-> q[Len(q) + 1 - i]]

\* the caller pushes to, shifts or reverses the i-th array it was handed
CallerEdits(i, op) ==
  LET a == snapshots[i]
      old == Contents(a)
      new == CASE op = "push" -> Append(old, [method |-> "caller", table |-> "",
                                              timestamp |-> now, duration |-> 0,
                                              status |-> "success", error |-> NoError])
               [] op = "shift" -> IF old = <<>> THEN old ELSE Tail(old)
               [] OTHER -> Reverse(old)
  IN /\ i \in DOMAIN snapshots
     /\ a.edits < MaxEdits
     /\ IF a.aliased
        THEN /\ requestMetrics' = new
             /\ snapshots' = [snapshots EXCEPT ![i].edits = @ + 1]
        ELSE /\ requestMetrics' = requestMetrics
             /\ snapshots' = [snapshots EXCEPT ![i].items = new, ![i].edits = @ + 1]
     /\ UNCHANGED <<now, requestCache, rateLimitMap, db, call, history, started,
                    abandoned, app>>

\* time passes while no step is taken
Elapse(d) ==
  /\ now + d <= MaxClock
  /\ now' = now + d
  /\ UNCHANGED <<requestCache, rateLimitMap, requestMetrics, db, call, history, started,
                 abandoned, app, snapshots>>

clearCache ==
  /\ requestCache' = <<>>
  /\ UNCHANGED <<now, rateLimitMap, requestMetrics, db, call, history, started,
                 abandoned, app, snapshots>>

\* ---------------------------------------------------------- specifications
\* two filter objects with the same properties, inserted in different orders
FilterIdRole == << <<"id", "1">>, <<"role", "farmer">> >>
FilterRoleId == << <<"role", "farmer">>, <<"id", "1">> >>
NoOptions == <<>>

\* Spec: one caller issuing the seven operations one after the other, each
\* awaited before the next; the backend answers, fails or stays silent.
Next ==
  \/ /\ started < MaxCalls
     /\ \E t \in Tables, f \in {FilterIdRole, FilterRoleId},
           o \in {[maxRetries |-> 0], [maxRetries |-> 1]} :
          middlewareSelect(1, t, "*", f, o)
  \/ /\ started < MaxCalls
     /\ \E t \in Tables, o \in {[maxRetries |-> 0], [maxRetries |-> 1]} :
          middlewareInsert(1, t, o)
  \/ /\ started < MaxCalls
     /\ \E t \in Tables, o \in {[maxRetries |-> 0], [maxRetries |-> 1]} :
          middlewareUpdate(1, t, o)
  \/ /\ started < MaxCalls
     /\ \E t \in Tables, o \in {[maxRetries |-> 0], [maxRetries |-> 1]} :
          middlewareDelete(1, t, o)
  \/ /\ started < MaxCalls
     /\ \E o \in {[maxRetries |-> 0], [maxRetries |-> 1]} : middlewareAuthSignIn(1, o)
  \/ /\ started < MaxCalls
     /\ \E o \in {[maxRetries |-> 0], [maxRetries |-> 1]} : middlewareAuthSignUp(1, o)
  \/ /\ started < MaxCalls
     /\ \E o \in {[maxRetries |-> 0], [maxRetries |-> 1]} : middlewareAuthSignOut(1, o)
  \/ Continue(1)
  \/ \E outcome \in {"ok", "error"} : Reply(1, outcome, 0)
  \/ TimeoutFire(1, FALSE)
  \/ Resume(1)
  \/ clearCache

Spec == Init /\ [][Next]_vars

\* SpecRetry: one caller, every operation under the default retry budget
\* (maxRetries 3) and under overrides of it; reads bypass the cache.
RetryOptions == {NoOptions, [maxRetries |-> 0], [maxRetries |-> 2]}

NextRetry ==
  \/ /\ started < MaxRetryCalls
     /\ \E o \in RetryOptions :
          middlewareSelect(1, "users", "*", FilterIdRole, [cache |-> FALSE] @@ o)
  \/ /\ started < MaxRetryCalls
     /\ \E o \in RetryOptions : middlewareInsert(1, "users", o)
  \/ /\ started < MaxRetryCalls
     /\ \E o \in RetryOptions : middlewareUpdate(1, "users", o)
  \/ /\ started < MaxRetryCalls
     /\ \E o \in RetryOptions : middlewareDelete(1, "users", o)
  \/ /\ started < MaxRetryCalls
     /\ \E o \in RetryOptions : middlewareAuthSignIn(1, o)
  \/ /\ started < MaxRetryCalls
     /\ \E o \in RetryOptions : middlewareAuthSignUp(1, o)
  \/ /\ started < MaxRetryCalls
     /\ \E o \in RetryOptions : middlewareAuthSignOut(1, o)
  \/ \E outcome \in {"ok", "error"} : Reply(1, outcome, 0)
  \/ TimeoutFire(1, FALSE)
  \/ Resume(1)

SpecRetry == Init /\ [][NextRetry]_vars

\* SpecOutcome: one caller, every operation; each attempt is answered, fails
\* with a backend error, is rejected by the network, or times out.
OutcomeOptions == {[maxRetries |-> 1], [maxRetries |-> 2]}

NextOutcome ==
  \/ /\ started < MaxOutcomeCalls
     /\ \E o \in OutcomeOptions :
          middlewareSelect(1, "users", "*", FilterIdRole, [cache |-> FALSE] @@ o)
  \/ /\ started < MaxOutcomeCalls
     /\ \E o \in OutcomeOptions : middlewareInsert(1, "users", o)
  \/ /\ started < MaxOutcomeCalls
     /\ \E o \in OutcomeOptions : middlewareUpdate(1, "users", o)
  \/ /\ started < MaxOutcomeCalls
     /\ \E o \in OutcomeOptions : middlewareDelete(1, "users", o)
  \/ /\ started < MaxOutcomeCalls
     /\ \E o \in OutcomeOptions : middlewareAuthSignIn(1, o)
  \/ /\ started < MaxOutcomeCalls
     /\ \E o \in OutcomeOptions : middlewareAuthSignUp(1, o)
  \/ /\ started < MaxOutcomeCalls
     /\ \E o \in OutcomeOptions : middlewareAuthSignOut(1, o)
  \/ \E outcome \in {"ok", "error", "reject"} : Reply(1, outcome, 0)
  \/ TimeoutFire(1, FALSE)
  \/ Resume(1)

SpecOutcome == Init /\ [][NextOutcome]_vars

\* SpecTimeout: one caller reading and creating rows of one table while the
\* backend answers in time, answers after the deadline, or never answers.
TimeoutOptions ==
  {[maxRetries |-> 1], [maxRetries |-> 1, timeout |-> 5000], [maxRetries |-> 0]}

NextTimeout ==
  \/ /\ started < MaxTimeoutCalls
     /\ \E o \in TimeoutOptions : middlewareSelect(1, "users", "*", FilterIdRole, o)
  \/ /\ started < MaxTimeoutCalls
     /\ middlewareInsert(1, "users", [maxRetries |-> 1])
  \/ Continue(1)
  \/ \E outcome \in {"ok", "error"} : Reply(1, outcome, 0)
  \/ TimeoutFire(1, FALSE)
  \/ Resume(1)
  \/ \E q \in abandoned, outcome \in {"ok", "error"} : LateReply(q, outcome)

SpecTimeout == Init /\ [][NextTimeout]_vars

\* SpecLive: one caller issuing the four CRUD operations under the default
\* budget and under an override; the backend may never answer and the caller
\* may stop waiting.  The timers of withTimeout and of the backoff always
\* fire (setTimeout), which is the fairness assumed.
LiveOptions == {NoOptions, [maxRetries |-> 1, timeout |-> 5000]}

NextLive ==
  \/ /\ started < MaxLiveCalls
     /\ \E o \in LiveOptions :
          middlewareSelect(1, "users", "*", FilterIdRole, [cache |-> FALSE] @@ o)
  \/ /\ started < MaxLiveCalls
     /\ \E o \in LiveOptions : middlewareInsert(1, "users", o)
  \/ /\ started < MaxLiveCalls
     /\ \E o \in LiveOptions : middlewareUpdate(1, "users", o)
  \/ /\ started < MaxLiveCalls
     /\ \E o \in LiveOptions : middlewareDelete(1, "users", o)
  \/ Reply(1, "ok", 0)
  \/ Reply(1, "error", 0)
  \/ TimeoutFire(1, FALSE)
  \/ Resume(1)
  \/ CallerLeaves(1)

SpecLive ==
  /\ Init
  /\ [][NextLive]_vars
  /\ WF_vars(TimeoutFire(1, FALSE))
  /\ WF_vars(Resume(1))

\* SpecConc: two callers whose calls overlap: reads and creates of one table,
\* sign-in and sign-up, with logRequests left on and switched off; the steps of
\* the two calls interleave in every order.
ConcOptions == {[maxRetries |-> 0], [maxRetries |-> 1, logRequests |-> FALSE]}

\* a new call takes the first free slot
FreeSlot(c) == call[c].pc = "idle" /\ \A d \in Slots : d < c => call[d].pc # "idle"

NextConc ==
  \E c \in Slots :
    \/ /\ started < MaxConcCalls /\ FreeSlot(c)
       /\ \E o \in ConcOptions : middlewareSelect(c, "users", "*", FilterIdRole, o)
    \/ /\ started < MaxConcCalls /\ FreeSlot(c)
       /\ \E o \in ConcOptions : middlewareInsert(c, "users", o)
    \/ /\ started < MaxConcCalls /\ FreeSlot(c)
       /\ \E o \in ConcOptions : middlewareAuthSignIn(c, o)
    \/ /\ started < MaxConcCalls /\ FreeSlot(c)
       /\ \E o \in ConcOptions : middlewareAuthSignUp(c, o)
    \/ Continue(c)
    \/ \E outcome \in {"ok", "error"} : Reply(c, outcome, 0)
    \/ Resume(c)

SpecConc == Init /\ [][NextConc]_vars

\* SpecWarmUp: one caller signing in again and again, each call answered
\* after one millisecond, until the metrics log is one record short of full.
NextWarmUp ==
  \/ /\ started < MaxWarmUpCalls
     /\ middlewareAuthSignIn(1, [maxRetries |-> 0])
  \/ Reply(1, "ok", 1)

SpecWarmUp == Init /\ [][NextWarmUp]_vars

\* the history entry of the i-th call of SpecWarmUp
PastSignIn(i) ==
  [slot |-> 1, kind |-> "signin", table |-> "auth", columns |-> "*", filters |-> <<>>,
   cacheKey |-> <<>>, opts |-> mergedOptions([maxRetries |-> 0]), admitted |-> TRUE,
   env |-> Envelope(sessionPayload, NoError, "success", i - 1, 1, 0),
   netCalls |-> 1, invocations |-> 1, sleeps |-> <<>>, cacheNow |-> 0, cache |-> <<>>,
   returnedAt |-> i, id |-> i, deadline |-> NoDeadline, awaited |-> TRUE,
   startedBefore |-> i]

\* the state SpecWarmUp is in when its n-th call has returned
WarmedUp(n) ==
  /\ now = n
  /\ requestCache = <<>>
  /\ rateLimitMap = <<>>
  /\ requestMetrics = [i \in 1..n |-> MetricOf(PastSignIn(i))]
  /\ db = [t \in Tables |-> 0]
  /\ call = [c \in Slots |-> IdleCall]
  /\ history = [i \in 1..n |-> PastSignIn(i)]
  /\ started = n
  /\ abandoned = {}
  /\ app = SignedOut
  /\ snapshots = <<>>

\* SpecWarmUp passes through WarmedUp(n) for every n up to MaxWarmUpCalls
WarmUpReachesWarmedUp ==
  (call[1].pc = "idle" /\ started > 0) => WarmedUp(started)

\* SpecMetrics: SpecWarmUp continued from a log that is nearly full; from
\* there on a call may also fail.
InitMetrics == \E n \in (MaxWarmUpCalls - 2)..MaxWarmUpCalls : WarmedUp(n)

NextMetrics ==
  \/ /\ started < METRICS_CAPACITY + MaxOverflow
     /\ middlewareAuthSignIn(1, [maxRetries |-> 0])
  \/ Reply(1, "ok", 1)
  \/ Reply(1, "error", 1)

SpecMetrics == InitMetrics /\ [][NextMetrics]_vars

\* SpecSignOut: a user is signed in and signs out through one of the three
\* wrappers; the backend answers the remote sign-out or fails it.
NextSignOut ==
  \/ onAuthStateChange
  \/ started < MaxSignOutCalls /\ signOut(1)
  \/ started < MaxSignOutCalls /\ signOutAuthContext(1)
  \/ started < MaxSignOutCalls /\ handleSignOut(1)
  \/ \E outcome \in {"ok", "error"} : Reply(1, outcome, 0)
  \/ Resume(1)
  \/ signOutContinues(1)

SpecSignOut == Init /\ [][NextSignOut]_vars

\* SpecFrame: one caller reading two tables with caching on, off and with
\* cache duration 0, creating rows of one of them and clearing the cache; an
\* attempt is answered, fails or times out.
FrameOptions ==
  {[maxRetries |-> 0], [maxRetries |-> 0, cache |-> FALSE],
   [maxRetries |-> 1, cacheDuration |-> 0]}

NextFrame ==
  \/ /\ started < MaxFrameCalls
     /\ \E o \in FrameOptions : middlewareSelect(1, "users", "*", FilterIdRole, o)
  \/ /\ started < MaxFrameCalls
     /\ middlewareSelect(1, "lands", "*", FilterIdRole, [maxRetries |-> 0])
  \/ /\ started < MaxFrameCalls
     /\ middlewareInsert(1, "users", [maxRetries |-> 0])
  \/ Continue(1)
  \/ \E outcome \in {"ok", "error"} : Reply(1, outcome, 0)
  \/ TimeoutFire(1, FALSE)
  \/ Resume(1)
  \/ call[1].pc = "idle" /\ clearCache

SpecFrame == Init /\ [][NextFrame]_vars

\* SpecSnapshot: one caller signing in, taking snapshots of the metrics log
\* and editing the arrays it was handed.
NextSnapshot ==
  \/ /\ started < MaxSnapshotCalls
     /\ middlewareAuthSignIn(1, [maxRetries |-> 0])
  \/ Reply(1, "ok", 1)
  \/ Len(snapshots) < MaxSnapshots /\ call[1].pc = "idle" /\ CallGetMetrics
  \/ /\ call[1].pc = "idle"
     /\ \E i \in DOMAIN snapshots, op \in {"push", "shift", "reverse"} : CallerEdits(i, op)

SpecSnapshot == Init /\ [][NextSnapshot]_vars

\* SpecRace: two callers reading one key of one table and creating rows of
\* it, their calls overlapping in every order; the backend evaluates a read
\* some time before its rows arrive, another client may write to the table,
\* and a millisecond may pass.
NextRace ==
  \/ \E c \in Slots :
       \/ /\ started < MaxRaceCalls /\ FreeSlot(c)
          /\ middlewareSelect(c, "users", "*", FilterIdRole, [maxRetries |-> 0])
       \/ /\ started < MaxRaceCalls /\ FreeSlot(c)
          /\ middlewareInsert(c, "users", [maxRetries |-> 0])
       \/ BackendReads(c)
       \/ Reply(c, "ok", 0)
       \/ Continue(c)
  \/ db["users"] < MaxRemoteWrites /\ RemoteWrite("users")
  \/ now < MaxRaceClock /\ Elapse(1)

SpecRace == Init /\ [][NextRace]_vars

\* SpecBurstWarmUp: one caller reading one table without caching again and
\* again within one millisecond, each read answered at once, until the rate
\* window of the key is one short of full.
BurstOptions == [maxRetries |-> 0, cache |-> FALSE]

NextBurstWarmUp ==
  \/ /\ started < MaxBurstWarmUp
     /\ middlewareSelect(1, "users", "*", FilterIdRole, BurstOptions)
  \/ Reply(1, "ok", 0)

SpecBurstWarmUp == Init /\ [][NextBurstWarmUp]_vars

\* the history entry of the i-th call of SpecBurstWarmUp
PastRead(i) ==
  [slot |-> 1, kind |-> "select", table |-> "users", columns |-> "*",
   filters |-> FilterIdRole,
   cacheKey |-> generateCacheKey("users", "select", FilterIdRole),
   opts |-> mergedOptions(BurstOptions), admitted |-> TRUE,
   env |-> Envelope([tag |-> "rows", table |-> "users", columns |-> "*",
                     where |-> {FilterIdRole[k] : k \in DOMAIN FilterIdRole},
                     version |-> 0],
                    NoError, "success", 0, 0, 0),
   netCalls |-> 1, invocations |-> 1, sleeps |-> <<>>, cacheNow |-> 0, cache |-> <<>>,
   returnedAt |-> 0, id |-> i, deadline |-> DEFAULT_OPTIONS.timeout, awaited |-> TRUE,
   startedBefore |-> i]

\* the state SpecBurstWarmUp is in when its n-th call has returned
WarmedBurst(n) ==
  /\ now = 0
  /\ requestCache = <<>>
  /\ rateLimitMap = [k \in {rateKey("users", "select")} |-> [i \in 1..n |-> 0]]
  /\ requestMetrics = [i \in 1..n |-> MetricOf(PastRead(i))]
  /\ db = [t \in Tables |-> 0]
  /\ call = [c \in Slots |-> IdleCall]
  /\ history = [i \in 1..n |-> PastRead(i)]
  /\ started = n
  /\ abandoned = {}
  /\ app = SignedOut
  /\ snapshots = <<>>

\* SpecBurstWarmUp passes through WarmedBurst(n) for every n up to MaxBurstWarmUp
BurstWarmUpReachesWarmedBurst ==
  (call[1].pc = "idle" /\ started > 0) => WarmedBurst(started)

\* SpecBurst: SpecBurstWarmUp continued by two callers whose reads overlap
\* in every order; a third of a rate window may pass while no read in flight
\* would run into its deadline.
InitBurst == \E n \in (MaxBurstWarmUp - 2)..MaxBurstWarmUp : WarmedBurst(n)

NextBurst ==
  \/ \E c \in Slots :
       \/ /\ started < MaxBurstCalls /\ FreeSlot(c)
          /\ middlewareSelect(c, "users", "*", FilterIdRole, BurstOptions)
       \/ Reply(c, "ok", 0)
  \/ /\ now + 20000 <= MaxBurstClock
     /\ \A c \in Slots : call[c].pc = "waiting" => now + 20000 < call[c].deadline
     /\ Elapse(20000)

SpecBurst == InitBurst /\ [][NextBurst]_vars

\* SpecColumns: one caller reading one table with one filter and different
\* column lists, with caching on or off; the backend answers or fails.
ColumnLists == {"*", "id, email", "id"}

NextColumns ==
  \/ /\ started < MaxColumnCalls
     /\ \E columns \in ColumnLists, o \in {[maxRetries |-> 0], [maxRetries |-> 0, cache |-> FALSE]} :
          middlewareSelect(1, "users", columns, FilterIdRole, o)
  \/ Continue(1)
  \/ \E outcome \in {"ok", "error"} : Reply(1, outcome, 0)

SpecColumns == Init /\ [][NextColumns]_vars

\* SpecCreate: one caller creating rows of one table; the backend answers in
\* time, fails, or is still busy when the deadline passes: it has then applied
\* the insert already, applies it later, or never does.
CreateOptions == {[maxRetries |-> 1, timeout |-> 5000], [maxRetries |-> 0]}

NextCreate ==
  \/ /\ started < MaxCreateCalls
     /\ \E o \in CreateOptions : middlewareInsert(1, "users", o)
  \/ \E outcome \in {"ok", "error"} : Reply(1, outcome, 0)
  \/ \E applied \in BOOLEAN : TimeoutFire(1, applied)
  \/ Resume(1)
  \/ \E q \in abandoned, outcome \in {"ok", "error"} : LateReply(q, outcome)

SpecCreate == Init /\ [][NextCreate]_vars

\* SpecNoRetry: one caller reading and creating rows with enableRetry
\* switched off, alone or together with a retry budget of its own.
NoRetryOptions == {[enableRetry |-> FALSE], [enableRetry |-> FALSE, maxRetries |-> 1]}

NextNoRetry ==
  \/ /\ started < MaxNoRetryCalls
     /\ \E o \in NoRetryOptions :
          middlewareSelect(1, "users", "*", FilterIdRole, [cache |-> FALSE] @@ o)
  \/ /\ started < MaxNoRetryCalls
     /\ \E o \in NoRetryOptions : middlewareInsert(1, "users", o)
  \/ \E outcome \in {"ok", "error"} : Reply(1, outcome, 0)
  \/ Resume(1)

SpecNoRetry == Init /\ [][NextNoRetry]_vars

\* SpecEnvelope: SpecBurstWarmUp continued by one caller reading without
\* caching, with no retry or one; the backend answers or fails, and the reads
\* beyond the ceiling are denied.
EnvelopeOptions == {BurstOptions, [maxRetries |-> 1, cache |-> FALSE]}

NextEnvelope ==
  \/ /\ started < MaxEnvelopeCalls
     /\ \E o \in EnvelopeOptions : middlewareSelect(1, "users", "*", FilterIdRole, o)
  \/ \E outcome \in {"ok", "error"} : Reply(1, outcome, 0)
  \/ Resume(1)

SpecEnvelope == InitBurst /\ [][NextEnvelope]_vars

\* SpecProfile: a user with any role or none, signed in or not, changes
\* roles of users and edits the own profile; the backend answers or fails.
ProfileUpdates ==
  {[phone_number |-> "077"],
   [username |-> "eve", phone_number |-> "077"],
   [username |-> "bob", district |-> "Kandy"],
   [username |-> "", postal_code |-> "20000"],
   [role |-> "admin", id |-> "9", address_line_1 |-> "1 Main St"],
   [email |-> "eve@mail"],
   [email |-> "bob@mail", username |-> "eve"]}

NextProfile ==
  \/ \E role \in Roles \cup {"null"} : sessionValid(role)
  \/ started < MaxProfileCalls /\ \E newRole \in Roles : updateUserRole(1, "7", newRole)
  \/ started < MaxProfileCalls /\ \E updates \in ProfileUpdates : updateProfile(1, updates)
  \/ \E outcome \in {"ok", "error"} : Reply(1, outcome, 0)
  \/ Continue(1)
  \/ Resume(1)
  \/ \E inUse \in BOOLEAN : profileContinues(1, inUse)

SpecProfile == Init /\ [][NextProfile]_vars

\* SpecGuard: a browser with any fixed set of cookies requests pages; the
\* guard runs for every request and the browser follows every redirect,
\* which is the fairness assumed.
CookieNames ==
  {<<"s", "b", "-", "a", "-", "a", "u", "t", "h", "-", "t", "o", "k", "e", "n">>,
   <<"t", "h", "e", "m", "e">>,
   <<"a", "b", "s", "b", "-", "1">>}

RequestedPaths ==
  {PathRoot, PathLogin, PathSignup,
   <<"/", "d", "a", "s", "h", "b", "o", "a", "r", "d">>,
   <<"/", "l", "o", "g", "i", "n", "/">>,
   <<"/", "a", "p", "i", "/", "x">>,
   <<"/", "a", "p", "i", "a", "r", "y">>,
   <<"/", "_", "n", "e", "x", "t", "/", "d", "a", "t", "a">>,
   <<"/", "f", "a", "v", "i", "c", "o", "n", ".", "i", "c", "o">>}

InitGuard ==
  /\ now = 0
  /\ requestCache = <<>>
  /\ rateLimitMap = <<>>
  /\ requestMetrics = <<>>
  /\ db = [t \in Tables |-> 0]
  /\ call = [c \in Slots |-> IdleCall]
  /\ history = <<>>
  /\ started = 0
  /\ abandoned = {}
  /\ \E names \in SUBSET CookieNames, sessionCookie \in {"", "token"} :
       app = [SignedOut EXCEPT !.jar = names, !.cookie = sessionCookie]
  /\ snapshots = <<>>

NextGuard ==
  \/ \E pathname \in RequestedPaths : navigate(pathname)
  \/ serve

SpecGuard == InitGuard /\ [][NextGuard]_vars /\ WF_vars(serve)

\* SpecCache: one caller reading and creating rows of one table, with the
\* default cache duration and with caching switched to duration 0; the
\* backend may take a second to answer and the caller may pause between calls.
CacheOptions == {[maxRetries |-> 1], [maxRetries |-> 0, cacheDuration |-> 0]}

NextCache ==
  \/ /\ started < MaxCacheCalls
     /\ \E o \in CacheOptions : middlewareSelect(1, "users", "*", FilterIdRole, o)
  \/ /\ started < MaxCacheCalls
     /\ middlewareInsert(1, "users", [maxRetries |-> 0])
  \/ Continue(1)
  \/ \E lat \in {0, 1000} : Reply(1, "ok", lat)
  \/ Reply(1, "error", 0)
  \/ Resume(1)
  \/ call[1].pc = "idle" /\ Elapse(299000)

SpecCache == Init /\ [][NextCache]_vars

\* SpecRate: one caller sending bursts of reads of one table (answered at
\* once, then served from the cache); between two bursts the caller may pause
\* half a rate window or create a row.
BetweenBursts == call[1].pc = "idle" /\ started % BurstSize = 0

NextRate ==
  \/ /\ started < MaxRateCalls
     /\ middlewareSelect(1, "users", "*", FilterIdRole, NoOptions)
  \/ /\ BetweenBursts /\ started > 0 /\ started < MaxRateCalls
     /\ middlewareInsert(1, "users", NoOptions)
  \/ Continue(1)
  \/ Reply(1, "ok", 0)
  \/ BetweenBursts /\ now + 30000 <= MaxRateClock /\ Elapse(30000)

SpecRate == Init /\ [][NextRate]_vars

\* ------------------------------------------------------------------ claims
Last == history[Len(history)]

Mutated(h) == h.kind \in MutationKinds /\ h.admitted

\* C1: when an admitted Create, Update or Delete on resource R returns, with
\* success or after its retries are used up, the cache holds no entry whose
\* key starts with "R:".
C1_MutationInvalidatesOnEveryOutcome ==
  \A i \in DOMAIN history :
    Mutated(history[i]) =>
      \A k \in DOMAIN history[i].cache : ~startsWithTable(k, history[i].table)

\* C2: when a SignOut call returns the cache is empty, whatever the outcome
\* of the remote sign-out.
C2_SignOutAlwaysEmptiesCache ==
  \A i \in DOMAIN history :
    history[i].kind = "signout" => DOMAIN history[i].cache = {}

\* two filter objects hold the same key-value pairs
SameProps(f, g) == {f[i] : i \in DOMAIN f} = {g[i] : i \in DOMAIN g}

\* C6: filter objects with the same key-value pairs inserted in a different
\* order get the same cache key: the key of a read in flight is the key of
\* every reordering of its filter.
C6_KeyIgnoresInsertionOrder ==
  \A c \in Slots :
    (call[c].pc # "idle" /\ call[c].kind = "select") =>
      \A g \in {FilterIdRole, FilterRoleId} :
        SameProps(call[c].filters, g) =>
          call[c].cacheKey = generateCacheKey(call[c].table, "select", g)

AllAttemptsFailed(h) == h.admitted /\ h.env.status # "success"

\* C9: an admitted read, create, update or delete whose attempts all fail
\* returns "retry_exhausted" for every maxRetries >= 0.
C9_CrudExhaustionIsRetryExhausted ==
  \A i \in DOMAIN history :
    (history[i].kind \in CrudKinds /\ AllAttemptsFailed(history[i])) =>
      history[i].env.status = "retry_exhausted"

\* C10: a sign-in, sign-up or sign-out whose attempts all fail returns
\* "retry_exhausted".
C10_AuthExhaustionIsRetryExhausted ==
  \A i \in DOMAIN history :
    (history[i].kind \in AuthKinds /\ AllAttemptsFailed(history[i])) =>
      history[i].env.status = "retry_exhausted"

\* C8: withRetry calls an attempt function that always fails maxRetries + 1
\* times and never more, returns the last failure with retries = maxRetries,
\* and sleeps once between two attempts but not after the last one.
C8_ExhaustionAfterMaxRetriesPlusOne ==
  /\ \A c \in Slots :
       call[c].pc # "idle" =>
         /\ call[c].invocations = call[c].attempt + 1
         /\ call[c].invocations <= call[c].opts.maxRetries + 1
         /\ Len(call[c].sleeps) = call[c].attempt + (IF call[c].pc = "backoff" THEN 1 ELSE 0)
         /\ call[c].pc = "backoff" => call[c].attempt < call[c].opts.maxRetries
  /\ \A i \in DOMAIN history :
       AllAttemptsFailed(history[i]) =>
         /\ history[i].invocations = history[i].opts.maxRetries + 1
         /\ history[i].env.retries = history[i].opts.maxRetries
         /\ Len(history[i].sleeps) = history[i].opts.maxRetries
         /\ history[i].env.error \in {"Request timeout", FailureMessage(history[i].kind)}

\* a call under the default budget has failed four times and returned
C8_Witness ==
  \E i \in DOMAIN history :
    /\ AllAttemptsFailed(history[i])
    /\ history[i].opts.maxRetries = 3
    /\ history[i].invocations = 4
    /\ history[i].sleeps = <<1000, 2000, 4000>>

\* history[i] is an admitted read with caching on
CachedRead(h) == h.kind = "select" /\ h.admitted /\ h.opts.cache

\* history[i] and history[i+1] are reads of the same resource and filter with
\* caching on, the first successful, and nothing returned in between
ReadTwice(i) ==
  /\ i + 1 \in DOMAIN history
  /\ CachedRead(history[i]) /\ CachedRead(history[i + 1])
  /\ history[i].env.status = "success"
  /\ history[i + 1].table = history[i].table
  /\ history[i + 1].filters = history[i].filters

\* the timestamp of the entry a successful cached read leaves for its key
EntryTimestamp(h) == h.cache[h.cacheKey].timestamp

\* C3: a successful cached read of (R, filter), then a successful Create on
\* R, then the same read: the last read performs a network read and does not
\* return the payload that was cached before the Create.
C3_ReadAfterCreateMisses ==
  \A i \in DOMAIN history :
    ( /\ i + 2 \in DOMAIN history
      /\ CachedRead(history[i]) /\ history[i].env.status = "success"
      /\ history[i + 1].kind = "insert" /\ history[i + 1].table = history[i].table
      /\ history[i + 1].env.status = "success"
      /\ history[i + 2].kind = "select" /\ history[i + 2].admitted
      /\ history[i + 2].cacheKey = history[i].cacheKey )
    => /\ history[i + 2].netCalls >= 1
       /\ history[i + 2].env.data # history[i].env.data

\* read, create, read again within the cache duration of the first read
C3_Witness ==
  \E i \in DOMAIN history :
    /\ i + 2 \in DOMAIN history
    /\ CachedRead(history[i]) /\ history[i].env.status = "success"
    /\ history[i + 1].kind = "insert" /\ history[i + 1].env.status = "success"
    /\ CachedRead(history[i + 2]) /\ history[i + 2].env.status = "success"
    /\ history[i + 2].env.timestamp - history[i].cacheNow < history[i + 2].opts.cacheDuration

\* what C4 promises of the second read
ServedFromCache(i) ==
  /\ history[i + 1].netCalls = 0
  /\ history[i + 1].env.status = "success"
  /\ history[i + 1].env.retries = 0
  /\ history[i + 1].env.data = history[i].env.data

\* C4 as stated: two sequential reads with identical resource and filter, the
\* second issued less than cacheDuration after the first SUCCEEDED, invoke the
\* network once; the second is served from the cache.
C4_SecondReadWithinDurationOfSuccess ==
  \A i \in DOMAIN history :
    ( /\ ReadTwice(i)
      /\ history[i + 1].env.timestamp - history[i].returnedAt
           < history[i + 1].opts.cacheDuration )
    => ServedFromCache(i)

\* C4 amended: the cache duration runs from the timestamp of the entry, which
\* withCache takes before it issues the network read. A second read issued
\* less than cacheDuration after that timestamp performs no network read and
\* returns success, retries = 0 and the data of the first.
C4_SecondReadWithinDurationOfEntry ==
  \A i \in DOMAIN history :
    ( /\ ReadTwice(i)
      /\ history[i + 1].env.timestamp - EntryTimestamp(history[i])
           < history[i + 1].opts.cacheDuration )
    => ServedFromCache(i)

\* a read that went to the network and was answered after a second, and a
\* second read, issued when the entry was already a second old, served from it
C4_Witness ==
  \E i \in DOMAIN history :
    /\ ReadTwice(i)
    /\ history[i].netCalls = 1
    /\ history[i].returnedAt > history[i].cacheNow
    /\ history[i + 1].env.timestamp > EntryTimestamp(history[i])
    /\ history[i + 1].env.timestamp - EntryTimestamp(history[i])
         < history[i + 1].opts.cacheDuration
    /\ ServedFromCache(i)

\* the entry for the key of the read in slot c is stale at the clock value t
StaleFor(c, t) ==
  /\ call[c].cacheKey \in DOMAIN requestCache
  /\ t - requestCache[call[c].cacheKey].timestamp >= call[c].opts.cacheDuration

\* C5: a cache entry is never returned once now - createdAt >= cacheDuration.
\* A read that finds its entry stale issues the network read (with
\* cacheDuration = 0 every read does), and the stale entry stays in the cache
\* until a successful read overwrites it.
C5_StaleEntryIgnoredNotRemoved ==
  /\ \A c \in Slots :
       call[c].pc = "hit" =>
         /\ ~StaleFor(c, call[c].cacheNow)
         /\ call[c].opts.cacheDuration > 0
         /\ call[c].hitData = requestCache[call[c].cacheKey].data
  /\ \A i \in DOMAIN history :
       (CachedRead(history[i]) /\ history[i].opts.cacheDuration = 0) =>
         history[i].netCalls = history[i].invocations
  /\ \A i \in DOMAIN history :
       ( /\ i + 1 \in DOMAIN history
         /\ CachedRead(history[i + 1])
         /\ history[i + 1].cacheKey \in DOMAIN history[i].cache
         /\ history[i + 1].env.timestamp - history[i].cache[history[i + 1].cacheKey].timestamp
              >= history[i + 1].opts.cacheDuration )
       => /\ history[i + 1].netCalls >= 1
          /\ history[i + 1].cacheKey \in DOMAIN history[i + 1].cache
          /\ history[i + 1].env.status # "success" =>
               history[i + 1].cache[history[i + 1].cacheKey]
                 = history[i].cache[history[i + 1].cacheKey]

\* a read waits for the network while the entry of its key, older than the
\* default cache duration, is still in the cache
C5_Witness ==
  \E c \in Slots :
    /\ call[c].pc = "waiting" /\ call[c].kind = "select"
    /\ call[c].opts.cache /\ call[c].opts.cacheDuration = 300000
    /\ StaleFor(c, call[c].cacheNow)

\* the calls on the key of history[n] that returned before it and were
\* admitted less than RATE_LIMIT_WINDOW before it started
AdmittedInWindow(n) ==
  {j \in 1..(n - 1) :
     /\ history[j].kind = history[n].kind /\ history[j].table = history[n].table
     /\ history[j].admitted
     /\ history[n].env.timestamp - history[j].env.timestamp < RATE_LIMIT_WINDOW}

\* C7: a CRUD call is denied exactly when 100 or more calls on its
\* (resource, operation) key were admitted in the trailing 60000 ms; a denied
\* call returns status "error" with retries = 0 and performs no network call
\* and no retry.
C7_DeniedExactlyAtCeiling ==
  (history # <<>> /\ Last.kind \in CrudKinds) =>
    /\ ~Last.admitted <=> Cardinality(AdmittedInWindow(Len(history))) >= RATE_LIMIT_REQUESTS
    /\ ~Last.admitted =>
         /\ Last.env.status = "error" /\ Last.env.retries = 0
         /\ Last.env.error = "Rate limit exceeded"
         /\ Last.netCalls = 0 /\ Last.invocations = 0 /\ Last.sleeps = <<>>

\* the 101st read inside one window has been denied, with admissions of two
\* different times in its window
C7_Witness ==
  /\ history # <<>>
  /\ Last.kind = "select" /\ ~Last.admitted
  /\ Cardinality(AdmittedInWindow(Len(history))) = RATE_LIMIT_REQUESTS
  /\ \E j, k \in AdmittedInWindow(Len(history)) :
       history[j].env.timestamp # history[k].env.timestamp

RECURSIVE SumSeq(_)
SumSeq(q) == IF q = <<>> THEN 0 ELSE q[1] + SumSeq(Tail(q))

\* the waits 1000, 2000, 4000, ... before attempts 1 .. k
DoublingWaits(q) == \A i \in DOMAIN q : q[i] = Pow2(i - 1) * 1000

\* C11: an attempt function that fails k <= maxRetries times and then
\* succeeds yields retries = k; the wait before attempt i + 1 is exactly
\* 2^i * 1000 ms, so the call has waited (2^k - 1) * 1000 ms when it succeeds.
C11_BackoffDoublesFromOneSecond ==
  /\ \A c \in Slots : DoublingWaits(call[c].sleeps)
  /\ \A c \in Slots :
       call[c].pc = "backoff" => call[c].wake >= call[c].startTime + SumSeq(call[c].sleeps)
  /\ \A i \in DOMAIN history :
       (history[i].admitted /\ history[i].env.status = "success") =>
         /\ history[i].env.retries = history[i].invocations - 1
         /\ history[i].env.retries <= history[i].opts.maxRetries
         /\ Len(history[i].sleeps) = history[i].env.retries
         /\ DoublingWaits(history[i].sleeps)
         /\ SumSeq(history[i].sleeps) = (Pow2(history[i].env.retries) - 1) * 1000
         /\ history[i].env.duration >= SumSeq(history[i].sleeps)

\* under the default budget a call has failed twice and then succeeded
C11_Witness ==
  \E i \in DOMAIN history :
    /\ history[i].opts.maxRetries = 3
    /\ history[i].env.status = "success"
    /\ history[i].env.retries = 2
    /\ history[i].sleeps = <<1000, 2000>>
    /\ history[i].env.duration >= 3000

\* C12: every outcome returned by one of the seven operations has
\* retries <= the maxRetries in effect for the call.
C12_RetriesWithinBudget ==
  \A i \in DOMAIN history :
    /\ history[i].env.retries >= 0
    /\ history[i].env.retries <= history[i].opts.maxRetries

\* a call under the default budget has succeeded at its last permitted attempt
C12_Witness ==
  \E i \in DOMAIN history :
    /\ history[i].opts.maxRetries = 3
    /\ history[i].env.status = "success"
    /\ history[i].env.retries = 3

GatewayStatuses == {"success", "error", "timeout", "retry_exhausted"}

TimedOut(h) == h.admitted /\ h.env.error = "Request timeout"

\* C14: a CRUD attempt that has not settled at its deadline (timeout option,
\* else 30000 ms after it was issued) fails as a timeout, which is retried
\* exactly like an error; what the backend answers after the deadline is
\* neither returned to the caller nor written to the cache.
C14_TimeoutFailsAttemptAndLateResultIsDropped ==
  /\ \A c \in Slots :
       (call[c].pc = "waiting" /\ call[c].kind \in CrudKinds) =>
         /\ now <= call[c].deadline
         /\ (call[c].kind = "select" /\ call[c].opts.cache) =>
              call[c].deadline = call[c].cacheNow + call[c].opts.timeout
  /\ \A c \in Slots :
       (call[c].pc = "backoff" /\ call[c].lastError = "Request timeout") =>
         /\ call[c].attempt < call[c].opts.maxRetries
         /\ call[c].wake = call[c].deadline + Pow2(call[c].attempt) * BACKOFF_UNIT
  /\ \A i \in DOMAIN history :
       /\ TimedOut(history[i]) =>
            /\ history[i].invocations = history[i].opts.maxRetries + 1
            /\ history[i].env.retries = history[i].opts.maxRetries
            /\ history[i].env.status \in {"error", "retry_exhausted"}
            /\ history[i].env.data = NullData
            /\ history[i].returnedAt = history[i].deadline
       /\ (history[i].env.status = "success" /\ history[i].netCalls = history[i].invocations) =>
            history[i].returnedAt <= history[i].deadline
  /\ \A k \in DOMAIN requestCache :
       \E i \in DOMAIN history :
         /\ history[i].env.status = "success"
         /\ history[i].cacheKey = k
         /\ k \in DOMAIN history[i].cache
         /\ history[i].cache[k] = requestCache[k]

\* every attempt of a cached read timed out, the backend has answered since,
\* and the key has no entry
C14_Witness ==
  \E i \in DOMAIN history :
    /\ history[i].kind = "select"
    /\ history[i].opts.cache
    /\ TimedOut(history[i])
    /\ abandoned = {}
    /\ history[i].cacheKey \notin DOMAIN requestCache

\* the call started as number n has returned: it made at most maxRetries + 1
\* attempts, its metric record is in the log and, for a mutation that
\* succeeded, its table has no cache entry
Terminated(n) ==
  \E i \in DOMAIN history :
    /\ history[i].id = n
    /\ history[i].invocations <= history[i].opts.maxRetries + 1
    /\ i \in DOMAIN requestMetrics
    /\ requestMetrics[i].timestamp = history[i].returnedAt
    /\ requestMetrics[i].method = Method(history[i].kind)
    /\ (history[i].kind \in MutationKinds /\ history[i].env.status = "success") =>
         \A k \in DOMAIN requestCache : ~startsWithTable(k, history[i].table)

C16_AuthAttemptHasDeadline ==
  \A c \in Slots :
    (call[c].pc = "waiting" /\ call[c].kind \in AuthKinds) =>
      call[c].deadline # NoDeadline

InFlight == {c \in Slots : call[c].pc # "idle"}

C18_LogIsTheLastThousandRecords ==
  LET n == Len(history)
      m == Len(requestMetrics)
  IN /\ m <= METRICS_CAPACITY
     /\ m = IF n <= METRICS_CAPACITY THEN n ELSE METRICS_CAPACITY
     /\ \A i \in 1..m : requestMetrics[i] = MetricOf(history[n - m + i])

\* two records more than the capacity have been appended, the last one for a
\* failed call: the two oldest are gone
C18_Witness ==
  /\ Len(history) = METRICS_CAPACITY + 2
  /\ Len(requestMetrics) = METRICS_CAPACITY
  /\ requestMetrics[1] = MetricOf(history[3])
  /\ requestMetrics[1] # MetricOf(history[1])
  /\ requestMetrics[METRICS_CAPACITY].status = "error"

\* C19: the sign-out path never propagates a failure and always completes
\* the local cleanup: when signOut or handleSignOut has finished, the session
\* is null, the user role is null and the agrishield-session cookie is
\* cleared, whether or not the remote sign-out succeeded.
C19_SignOutAlwaysCleansUp ==
  app.finished # "none" =>
    /\ app.outcome = "resolved"
    /\ app.session = "null"
    /\ app.userRole = "null"
    /\ app.cookie = ""

\* slot c takes a step of a sign-in or sign-up call
AuthEntryStep(c) ==
  /\ call'[c] # call[c]
  /\ (IF call[c].pc = "idle" THEN call'[c].kind ELSE call[c].kind) \in {"signin", "signup"}

\* C20: sign-in and sign-up are never subject to admission control and never
\* touch the cache: no step of such a call adds a timestamp to a rate window
\* or changes a cache entry, and the call is never denied.
C20_AuthEntryLeavesLimiterAndCacheAlone ==
  [][\A c \in Slots :
       AuthEntryStep(c) =>
         /\ rateLimitMap' = rateLimitMap
         /\ requestCache' = requestCache
         /\ Len(history') > Len(history) => history'[Len(history')].admitted]_vars

\* a sign-in has returned while the cache held an entry and a rate window a
\* timestamp, and both are as they were
C20_Witness ==
  \E i \in DOMAIN history :
    /\ history[i].kind = "signin"
    /\ history[i].env.status = "success"
    /\ history[i].cache # <<>>
    /\ requestCache = history[i].cache
    /\ rateLimitMap # <<>>
    /\ \A k \in DOMAIN rateLimitMap : k[1] # "auth"

\* slot c's call returns in this step
Returns(c) == call[c].pc # "idle" /\ call'[c].pc = "idle" /\ Len(history') = Len(history) + 1

\* the attempt slot c is waiting for fails in this step
AttemptFails(c) ==
  /\ call[c].pc = "waiting"
  /\ \/ call'[c].pc = "backoff"
     \/ Returns(c) /\ history'[Len(history')].env.status # "success"

\* the network read slot c is waiting for succeeds in this step, caching on
CachedReadSucceeds(c) ==
  /\ call[c].pc = "waiting" /\ call[c].kind = "select" /\ call[c].opts.cache
  /\ Returns(c) /\ history'[Len(history')].env.status = "success"

\* every entry is what a successful read of its key stored
EntriesComeFromReads ==
  \A k \in DOMAIN requestCache :
    \E i \in DOMAIN history :
      /\ history[i].kind = "select" /\ history[i].env.status = "success"
      /\ history[i].netCalls >= 1
      /\ history[i].cacheKey = k
      /\ requestCache[k] = [data |-> history[i].env.data, timestamp |-> history[i].cacheNow]

\* C21: every cache entry holds the payload of a successful network read of
\* its key; an attempt that fails or times out neither creates nor overwrites
\* nor removes an entry, and a successful read overwrites the entry of its key.
C21_EntriesAreSuccessfulReads ==
  /\ []EntriesComeFromReads
  /\ [][\A c \in Slots :
          /\ AttemptFails(c) => requestCache' = requestCache
          /\ CachedReadSucceeds(c) =>
               /\ DOMAIN requestCache' = DOMAIN requestCache \cup {call[c].cacheKey}
               /\ requestCache'[call[c].cacheKey] =
                    [data |-> history'[Len(history')].env.data,
                     timestamp |-> call[c].cacheNow]
               /\ \A k \in DOMAIN requestCache \ {call[c].cacheKey} :
                    requestCache'[k] = requestCache[k]]_vars

\* a read whose first attempt failed found the entry of an earlier read still
\* there and overwrote it when its second attempt succeeded
C21_Witness ==
  \E i \in DOMAIN history :
    /\ i > 1
    /\ history[i].kind = "select" /\ history[i - 1].kind = "select"
    /\ history[i].cacheKey = history[i - 1].cacheKey
    /\ history[i - 1].env.status = "success" /\ history[i].env.status = "success"
    /\ history[i].opts.cache /\ history[i].opts.cacheDuration = 0
    /\ Len(history[i].sleeps) = 1
    /\ history[i].cacheKey \in DOMAIN history[i - 1].cache
    /\ history[i].cache[history[i].cacheKey].timestamp >
         history[i - 1].cache[history[i].cacheKey].timestamp
    /\ requestCache = history[i].cache

\* the mutation slot c is waiting for succeeds in this step
MutationSucceeds(c) ==
  /\ call[c].pc = "waiting" /\ call[c].kind \in MutationKinds
  /\ Returns(c) /\ history'[Len(history')].env.status = "success"

\* the keys of cache that belong to table
KeysOf(cache, table) == {k \in DOMAIN cache : k[1] = table /\ k[2] = ":"}

\* C22: the invalidation after a successful mutation of resource R removes
\* every entry whose key starts with "R:" and leaves the entries of the other
\* resources as they are; clearCache() removes every entry and changes
\* neither the rate windows nor the metrics log.
C22_InvalidationTakesOneTableClearTakesAll ==
  [][/\ \A c \in Slots :
          MutationSucceeds(c) =>
            /\ DOMAIN requestCache' = DOMAIN requestCache \ KeysOf(requestCache, call[c].table)
            /\ \A k \in DOMAIN requestCache' : requestCache'[k] = requestCache[k]
     /\ (call' = call /\ requestCache' # requestCache) =>
          /\ requestCache' = <<>>
          /\ rateLimitMap' = rateLimitMap
          /\ requestMetrics' = requestMetrics]_vars

\* with both tables cached a create on users succeeded and took the users
\* entry only; clearCache then took the rest and nothing else
C22_Witness ==
  /\ Len(history) = 3
  /\ Last.kind = "insert" /\ Last.env.status = "success"
  /\ KeysOf(history[2].cache, "users") # {}
  /\ KeysOf(history[2].cache, "lands") # {}
  /\ KeysOf(Last.cache, "users") = {}
  /\ \A k \in KeysOf(history[2].cache, "lands") :
       k \in DOMAIN Last.cache /\ Last.cache[k] = history[2].cache[k]
  /\ requestCache = <<>>
  /\ Len(requestMetrics) = 3
  /\ DOMAIN rateLimitMap =
       {rateKey("users", "select"), rateKey("lands", "select"), rateKey("users", "insert")}

\* slot c's call is a read with caching switched off
UncachedRead(c) == call[c].pc # "idle" /\ call[c].kind = "select" /\ ~call[c].opts.cache

\* C25: a read issued with cache = false never consults and never populates
\* the cache: each of its attempts is a network read, also when a fresh entry
\* for its key exists, and no step of it changes the cache.
C25_UncachedReadBypassesCache ==
  /\ [](\A c \in Slots : UncachedRead(c) =>
          call[c].pc # "hit" /\ call[c].netCalls = call[c].invocations)
  /\ [](\A i \in DOMAIN history :
          (history[i].kind = "select" /\ history[i].admitted /\ ~history[i].opts.cache) =>
            history[i].netCalls = history[i].invocations /\ history[i].netCalls >= 1)
  /\ [][\A c \in Slots :
          (UncachedRead(c) /\ call'[c] # call[c]) => requestCache' = requestCache]_vars

\* a read with caching off was answered by the backend while the cache held
\* a fresh entry for its key, and the entry is as it was
C25_Witness ==
  \E i \in DOMAIN history :
    /\ i > 1
    /\ history[i].kind = "select" /\ ~history[i].opts.cache
    /\ history[i].env.status = "success"
    /\ history[i].netCalls = 1
    /\ history[i].cacheKey \in DOMAIN history[i].cache
    /\ history[i].cache = history[i - 1].cache
    /\ cacheHit(history[i].cache, history[i].cacheKey, history[i].env.timestamp,
                history[i].opts.cacheDuration)

\* a call starts in this step, which runs its admission check if it is CRUD
CallStarts == started' = started + 1

\* the call that starts in this step: a denied call returns in the same step
Checked ==
  IF Len(history') > Len(history)
  THEN [kind |-> history'[Len(history')].kind, table |-> history'[Len(history')].table,
        admitted |-> history'[Len(history')].admitted]
  ELSE LET c == CHOOSE c \in Slots : call'[c] # call[c]
       IN [kind |-> call'[c].kind, table |-> call'[c].table, admitted |-> TRUE]

CheckedKey == <<Checked.table, ":", Checked.kind>>

\* the window stored for key k in map m
Window(m, k) == IF k \in DOMAIN m THEN m[k] ELSE <<>>

\* the positions of window w that hold a timestamp less than 60000 ms old
Fresh(w) == {i \in DOMAIN w : now - w[i] < RATE_LIMIT_WINDOW}

\* C23: an admission check counts only the timestamps ts with
\* now - ts < 60000; after an admitted check the stored window of the key
\* holds no older timestamp and at most 100 timestamps.
C23_WindowPrunedBeforeCounting ==
  [][(CallStarts /\ Checked.kind \in CrudKinds) =>
       LET old == Window(rateLimitMap, CheckedKey)
           new == Window(rateLimitMap', CheckedKey)
       IN /\ Checked.admitted <=> Cardinality(Fresh(old)) < RATE_LIMIT_REQUESTS
          /\ Checked.admitted =>
               /\ Len(new) = Cardinality(Fresh(old)) + 1
               /\ Len(new) <= RATE_LIMIT_REQUESTS
               /\ \A i \in DOMAIN new : now - new[i] < RATE_LIMIT_WINDOW
               /\ new[Len(new)] = now]_vars

\* a read was admitted a full window after earlier admitted reads, whose
\* timestamps the stored window no longer holds
C23_Witness ==
  LET w == Window(rateLimitMap, rateKey("users", "select"))
  IN /\ w # <<>>
     /\ Len(w) > 1
     /\ now = w[Len(w)]
     /\ \A i \in DOMAIN w : now - w[i] < RATE_LIMIT_WINDOW
     /\ history # <<>>
     /\ history[1].kind = "select" /\ history[1].admitted
     /\ now - history[1].env.timestamp >= RATE_LIMIT_WINDOW

\* C26: an admission check on key (R, op) changes only the window of that
\* key, and a denied check changes no window; a denied caller is therefore
\* admitted again as soon as fewer than 100 admitted timestamps are left in
\* the trailing window.
C26_CheckTouchesOwnWindowDenialNone ==
  [][(CallStarts /\ Checked.kind \in CrudKinds) =>
       /\ DOMAIN rateLimitMap' \subseteq DOMAIN rateLimitMap \cup {CheckedKey}
       /\ \A k \in DOMAIN rateLimitMap \ {CheckedKey} :
            k \in DOMAIN rateLimitMap' /\ rateLimitMap'[k] = rateLimitMap[k]
       /\ ~Checked.admitted => rateLimitMap' = rateLimitMap
       /\ Cardinality(Fresh(Window(rateLimitMap, CheckedKey))) < RATE_LIMIT_REQUESTS
            => Checked.admitted]_vars

\* a read was denied, and a later read was admitted when the window of the
\* key, which holds admitted timestamps only, had room again; the window of
\* the create key is untouched by the reads
C26_Witness ==
  /\ Len(history) > 1
  /\ Last.kind = "select" /\ Last.admitted
  /\ \E i \in DOMAIN history :
       /\ history[i].kind = "select" /\ ~history[i].admitted
       /\ history[i].env.timestamp < Last.env.timestamp
  /\ Len(Window(rateLimitMap, rateKey("users", "select"))) < RATE_LIMIT_REQUESTS
  /\ Len(Window(rateLimitMap, rateKey("users", "insert"))) = 1

\* what the callers see in the arrays they hold, now and after the step
Seen == [i \in DOMAIN snapshots |-> Contents(snapshots[i])]

SeenNext ==
  [i \in DOMAIN snapshots' |->
     IF snapshots'[i].aliased THEN requestMetrics' ELSE snapshots'[i].items]

\* C24: getMetrics() returns a copy of the log: pushing to, shifting or
\* reversing the returned array leaves the log as it is, and a record
\* appended later does not show up in an array returned earlier.
C24_GetMetricsReturnsACopy ==
  [][/\ Len(snapshots') > Len(snapshots) =>
          /\ SeenNext[Len(snapshots')] = requestMetrics
          /\ requestMetrics' = requestMetrics
     /\ (\E i \in DOMAIN snapshots : snapshots'[i].edits # snapshots[i].edits) =>
          requestMetrics' = requestMetrics
     /\ requestMetrics' # requestMetrics =>
          \A i \in DOMAIN snapshots : SeenNext[i] = Seen[i]]_vars

\* a caller took a snapshot of a log of two records and reversed it, a third
\* record was appended since: the log is in order and the array has two
C24_Witness ==
  /\ Len(requestMetrics) = 3
  /\ Len(history) = 3
  /\ \A i \in 1..3 : requestMetrics[i] = MetricOf(history[i])
  /\ \E i \in DOMAIN snapshots :
       /\ snapshots[i].edits = 1
       /\ Contents(snapshots[i]) = <<requestMetrics[2], requestMetrics[1]>>

\* C30: a read takes its rate-limit slot before the cache is consulted: a
\* read served from the cache has recorded an admission timestamp, and a read
\* the limiter denies returns status "error" and no payload, whatever the
\* cache holds for its key.
C30_LimiterBeforeCache ==
  [][(CallStarts /\ Checked.kind = "select") =>
       LET old == Window(rateLimitMap, CheckedKey)
           new == Window(rateLimitMap', CheckedKey)
       IN /\ (\E c \in Slots : call[c].pc = "idle" /\ call'[c].pc = "hit") =>
               /\ Cardinality(Fresh(old)) < RATE_LIMIT_REQUESTS
               /\ Len(new) = Cardinality(Fresh(old)) + 1
               /\ new[Len(new)] = now
          /\ Cardinality(Fresh(old)) >= RATE_LIMIT_REQUESTS =>
               /\ Len(history') = Len(history) + 1
               /\ history'[Len(history')].env.status = "error"
               /\ history'[Len(history')].env.data = NullData
               /\ history'[Len(history')].netCalls = 0
               /\ \A c \in Slots : call'[c].pc # "hit"]_vars

\* the read before the last was served from the cache and filled the window;
\* the last read was denied while the entry of its key was still fresh
C30_Witness ==
  /\ Len(history) > 1
  /\ Last.kind = "select" /\ ~Last.admitted
  /\ Last.env.status = "error" /\ Last.env.data = NullData
  /\ Last.cacheKey \in DOMAIN requestCache
  /\ cacheHit(requestCache, Last.cacheKey, now, Last.opts.cacheDuration)
  /\ history[Len(history) - 1].kind = "select"
  /\ history[Len(history) - 1].admitted
  /\ history[Len(history) - 1].netCalls = 0
  /\ history[Len(history) - 1].env.status = "success"
  /\ Len(Window(rateLimitMap, rateKey("users", "select"))) = RATE_LIMIT_REQUESTS

\* the returned calls that read key k from the network with caching on
NetworkReads(k) ==
  {i \in DOMAIN history :
     /\ history[i].kind = "select" /\ history[i].env.status = "success"
     /\ history[i].opts.cache /\ history[i].netCalls >= 1
     /\ history[i].cacheKey = k}

\* the returned mutations of a table that succeeded
Invalidations(table) ==
  {i \in DOMAIN history :
     /\ Mutated(history[i]) /\ history[i].env.status = "success"
     /\ history[i].table = table}

\* what the read returned as history[i] stored
WrittenBy(i) == [data |-> history[i].env.data, timestamp |-> history[i].cacheNow]

\* call j started while call i was in flight, or the other way round
Overlap(i, j) ==
  /\ i < j
  /\ history[j].id <= history[i].startedBefore
  /\ history[i].id <= history[j].startedBefore

SetMax(S) == CHOOSE m \in S : \A n \in S : n <= m

\* the entry of every key read so far is the one its last writer stored,
\* unless a mutation of its table returned after that
LastWriteWins ==
  \A h \in DOMAIN history :
    history[h].kind = "select" =>
      LET k == history[h].cacheKey
          W == NetworkReads(k)
          M == Invalidations(history[h].table)
      IN  IF W = {} \/ (M # {} /\ SetMax(M) > SetMax(W))
          THEN k \notin DOMAIN requestCache
          ELSE requestCache[k] = WrittenBy(SetMax(W))

\* a read served from the cache returns the whole payload of one earlier write
HitsReturnOneWrite ==
  \A h \in DOMAIN history :
    ( /\ history[h].kind = "select" /\ history[h].env.status = "success"
      /\ history[h].netCalls = 0 ) =>
        \E i \in NetworkReads(history[h].cacheKey) :
          i < h /\ history[h].env.data = history[i].env.data

\* C27: two overlapping reads of one key that both miss both read from the
\* network, the entry is finally the payload of whichever of them wrote last,
\* and a read of the cache sees no entry or the whole payload of one write,
\* never a mixture of two.
C27_ConcurrentWritesLastWins ==
  /\ LastWriteWins
  /\ HitsReturnOneWrite
  /\ \A c, d \in Slots :
       ( /\ c # d /\ call[c].pc = "waiting" /\ call[d].pc = "waiting"
         /\ call[c].kind = "select" /\ call[d].kind = "select" ) =>
           call[c].netCalls = 1 /\ call[d].netCalls = 1

\* two overlapping reads of one key both missed and returned different rows
\* read at different times; the entry is that of the one that returned last
C27_Witness ==
  \E i, j \in DOMAIN history :
    /\ Overlap(i, j)
    /\ i \in NetworkReads(history[j].cacheKey) /\ j \in NetworkReads(history[i].cacheKey)
    /\ history[i].env.data # history[j].env.data
    /\ history[i].cacheNow # history[j].cacheNow
    /\ history[i].cacheKey \in DOMAIN requestCache
    /\ requestCache[history[i].cacheKey] = WrittenBy(j)
    /\ requestCache[history[i].cacheKey] # WrittenBy(i)

\* C28: once a mutation of a table has returned success, no read of that
\* table that starts afterwards returns rows the backend produced before the
\* mutation, also when another read of the same key was in flight during the
\* mutation and stored its rows after the invalidation.
C28_NoStaleReadAfterMutation ==
  \A i, j \in DOMAIN history :
    ( /\ Mutated(history[i]) /\ history[i].env.status = "success"
      /\ history[j].kind = "select" /\ history[j].env.status = "success"
      /\ history[j].table = history[i].table
      /\ history[j].id > history[i].startedBefore ) =>
        history[j].env.data.version >= history[i].env.data.version

\* the admitted CRUD calls, returned or still in flight: <<id, start, key>>
Admissions ==
  {<<history[i].id, history[i].env.timestamp, rateKey(history[i].table, history[i].kind)>> :
     i \in {j \in DOMAIN history : history[j].admitted /\ history[j].kind \in CrudKinds}}
  \cup
  {<<call[c].id, call[c].startTime, rateKey(call[c].table, call[c].kind)>> :
     c \in {d \in Slots : call[d].pc # "idle" /\ call[d].kind \in CrudKinds}}

\* the admissions of key k in the 60000 ms that end at time t
AdmittedUpTo(k, t) ==
  {a \in Admissions : a[3] = k /\ a[2] <= t /\ t - a[2] < RATE_LIMIT_WINDOW}

\* C29: whatever the interleaving of concurrent calls, the calls admitted
\* for one (resource, operation) key within any trailing 60000 ms never
\* exceed 100: an admission check reads, prunes and appends in one step.
C29_NoOverAdmission ==
  \A t \in {a[2] : a \in Admissions}, k \in {a[3] : a \in Admissions} :
    Cardinality(AdmittedUpTo(k, t)) <= RATE_LIMIT_REQUESTS

\* the window is full with a read still in flight, and a read that started
\* while that one was in flight has been denied
C29_Witness ==
  /\ history # <<>> /\ ~Last.admitted
  /\ \E c \in Slots :
       /\ call[c].pc = "waiting" /\ call[c].id < Last.id
       /\ call[c].startTime = Last.env.timestamp
       /\ Cardinality(AdmittedUpTo(rateKey(call[c].table, call[c].kind), now))
            = RATE_LIMIT_REQUESTS

\* C31: two reads of one table with one filter and different column lists
\* never share a cache entry: the rows a read returns always come from a
\* network read that requested the read's own columns.
C31_ReadsReturnTheirOwnColumns ==
  \A i \in DOMAIN history :
    (history[i].kind = "select" /\ history[i].env.status = "success") =>
      history[i].env.data.columns = history[i].columns

\* the timer of withTimeout fires for the last attempt of slot c
LastAttemptTimesOut(c) ==
  /\ call[c].pc = "waiting" /\ abandoned' # abandoned
  /\ abandoned \subseteq abandoned'
  /\ Returns(c)

\* C32: no operation ever returns status "timeout": an attempt that exceeds
\* its deadline is absorbed by the retry policy, and a call whose last attempt
\* times out ends with status "retry_exhausted" (or "error", when it had no
\* retries) and the error message "Request timeout".
C32_TimeoutIsNeverAStatus ==
  /\ [](\A i \in DOMAIN history :
          history[i].env.status \in {"success", "error", "retry_exhausted"})
  /\ [][\A c \in Slots :
          LastAttemptTimesOut(c) =>
            LET h == history'[Len(history')]
            IN /\ h.env.error = "Request timeout"
               /\ h.env.status = IF call[c].opts.maxRetries = 0
                                  THEN "error" ELSE "retry_exhausted"
               /\ h.env.retries = call[c].opts.maxRetries]_vars

\* one call without retries timed out and returned "error", and another
\* whose two attempts both timed out returned "retry_exhausted"
C32_Witness ==
  \E i, j \in DOMAIN history :
    /\ history[i].opts.maxRetries = 0
    /\ history[i].env.error = "Request timeout" /\ history[i].env.status = "error"
    /\ history[i].env.duration = history[i].opts.timeout
    /\ history[j].opts.maxRetries = 1
    /\ history[j].env.error = "Request timeout"
    /\ history[j].env.status = "retry_exhausted"
    /\ history[j].env.duration = 2 * history[j].opts.timeout + BACKOFF_UNIT

\* the Create calls on a table started so far
CreatesStarted(table) ==
  Cardinality({i \in DOMAIN history :
                 history[i].kind = "insert" /\ history[i].table = table /\ history[i].admitted})
  + Cardinality({c \in Slots :
                   call[c].pc # "idle" /\ call[c].kind = "insert" /\ call[c].table = table})

\* C33: one Create call makes the backend apply its insert at most once, also
\* when an attempt is abandoned by the timeout guard while the backend still
\* completes it and the retry policy issues the insert again.
C33_InsertAppliedAtMostOnce ==
  \A table \in Tables : db[table] <= CreatesStarted(table)

\* C34: with the option enableRetry = false a failing attempt is not
\* retried: the underlying call is invoked exactly once and the outcome has
\* retries = 0.
C34_EnableRetryOffMeansOneAttempt ==
  \A i \in DOMAIN history :
    (history[i].admitted /\ ~history[i].opts.enableRetry) =>
      /\ history[i].invocations = 1
      /\ history[i].netCalls = 1
      /\ history[i].env.retries = 0

\* C35: every returned envelope is consistent, whatever maxRetries >= 0:
\* status is "success" exactly when error is null, an envelope that is not a
\* success has null data and an error, and a rate-limited envelope has
\* retries = 0 and duration = 0.
C35_EnvelopeIsConsistent ==
  \A i \in DOMAIN history :
    LET e == history[i].env
    IN /\ e.status = "success" <=> e.error = NoError
       /\ e.status # "success" => (e.data = NullData /\ e.error # NoError)
       /\ ~history[i].admitted =>
            /\ e.status = "error" /\ e.error = "Rate limit exceeded"
            /\ e.retries = 0 /\ e.duration = 0

\* a read with one retry was denied at the ceiling, after a read without
\* retries had failed and a read with one retry had succeeded at its retry
C35_Witness ==
  /\ history # <<>> /\ ~Last.admitted /\ Last.opts.maxRetries = 1
  /\ \E i \in DOMAIN history :
       /\ history[i].opts.maxRetries = 0 /\ history[i].env.status = "error"
       /\ history[i].admitted
  /\ \E k \in DOMAIN history :
       history[k].env.status = "success" /\ history[k].env.retries = 1

\* C36: updateUserRole sends an update to the backend only when the caller's
\* role is admin, or is agri_officer and the new role is farmer; in every
\* other case (farmer, viewer, no role, agri_officer assigning another role)
\* it rejects with a permission error and makes no backend call.
C36_RoleChangeNeedsPermission ==
  app.asked.fn = "updateUserRole" =>
    IF \/ app.asked.role = "admin"
       \/ app.asked.role = "agri_officer" /\ app.asked.newRole = "farmer"
    THEN /\ started = app.asked.before + 1
         /\ app.sent[Len(app.sent)] =
              [fn |-> "updateUserRole", payload |-> [role |-> app.asked.newRole], id |-> "7"]
    ELSE /\ started = app.asked.before
         /\ call[1].pc = "idle" /\ app.pending = "none"
         /\ app.finished = "updateUserRole" /\ app.outcome = "threw"
         /\ app.thrown = "You do not have permission to change user roles"
         /\ \A i \in DOMAIN app.sent : app.sent[i].payload # [role |-> app.asked.newRole]

\* an agri_officer has made a user a farmer through the backend and has then
\* been refused when assigning the role admin
C36_Witness ==
  /\ app.asked.fn = "updateUserRole" /\ app.asked.role = "agri_officer"
  /\ app.asked.newRole = "admin" /\ app.outcome = "threw"
  /\ \E i \in DOMAIN app.sent :
       app.sent[i].fn = "updateUserRole" /\ app.sent[i].payload = [role |-> "farmer"]
  /\ \E i \in DOMAIN history :
       history[i].kind = "update" /\ history[i].env.status = "success"

\* what updateProfile was last asked to change the username to, if anything
AskedUsername ==
  IF "username" \in DOMAIN app.asked.updates THEN app.asked.updates["username"] ELSE "absent"

\* the username the caller had when updateProfile was last called
UsernameThen == IF app.asked.role = "null" THEN "undefined" ELSE app.username

\* every update updateProfile has sent holds allowed fields only
PayloadsAreAllowed ==
  \A i \in DOMAIN app.sent :
    app.sent[i].fn = "updateProfile" =>
      /\ DOMAIN app.sent[i].payload \subseteq allowedFields
      /\ DOMAIN app.sent[i].payload \cap {"username", "role", "id"} = {}

\* the last call of updateProfile was rejected before any backend call
RejectedBeforeBackend ==
  /\ started = app.asked.before /\ call[1].pc = "idle" /\ app.pending = "none"
  /\ app.finished = "updateProfile" /\ app.outcome = "threw"

\* C37: updateProfile never sends the fields username, role or id to the
\* backend: the update holds fields of the allowed list only, a changed
\* username is rejected before any backend call, and without an
\* authenticated session no backend call is made.
C37_ProfileUpdateIsFiltered ==
  /\ PayloadsAreAllowed
  /\ app.asked.fn = "updateProfile" =>
       /\ (AskedUsername # "absent" /\ AskedUsername # UsernameThen) => RejectedBeforeBackend
       /\ app.asked.session = "null" => RejectedBeforeBackend

\* C37 as the code has it: a changed username is rejected before any backend
\* call unless it is the empty string, which is ignored like every field
\* outside the allowed list: the call goes on without it.
C37_ProfileUpdateIsFilteredEmptyNameIgnored ==
  /\ PayloadsAreAllowed
  /\ app.asked.fn = "updateProfile" =>
       /\ (AskedUsername \notin {"absent", "", UsernameThen}) =>
            /\ RejectedBeforeBackend
            /\ app.asked.session # "null" =>
                 app.thrown = "Username cannot be changed after account creation"
       /\ app.asked.session = "null" =>
            RejectedBeforeBackend /\ app.thrown = "No authenticated user"
       /\ (AskedUsername = "" /\ app.asked.session # "null") =>
            /\ started > app.asked.before
            /\ app.sent # <<>>
            /\ app.sent[Len(app.sent)].payload =
                 [f \in allowedFields \cap DOMAIN app.asked.updates |-> app.asked.updates[f]]

\* a signed-in user named bob asked for an empty username and a postal code:
\* the call was not rejected, and the backend confirmed an update holding the
\* postal code alone
C37_Witness ==
  /\ app.asked.fn = "updateProfile" /\ app.outcome = "resolved"
  /\ app.asked.role # "null" /\ app.username = "bob" /\ AskedUsername = ""
  /\ app.sent = <<[fn |-> "updateProfile", payload |-> [postal_code |-> "20000"],
                   id |-> "me"]>>
  /\ history # <<>> /\ Last.kind = "update" /\ Last.env.status = "success"

\* the request the guard is about to answer comes from a visitor without an
\* authentication cookie
Unauthenticated ==
  /\ app.cookie = ""
  /\ \A name \in app.jar : ~includes(name, <<"a", "u", "t", "h", "-", "t", "o", "k", "e", "n">>) /\ ~includes(name, <<"s", "b", "-">>)

Ignored(pathname) == \E route \in IGNORED_ROUTES : startsWith(pathname, route)

\* the guard answers the pending request in this step
Served == app.nav.state = "requested" /\ app' # app

\* C38: the route guard redirects an unauthenticated request for a path that
\* is neither public nor ignored to /login with the path in the redirect
\* parameter, redirects an authenticated request for /login or /signup to /,
\* and lets every other request pass; following its redirects reaches a
\* passed request within one redirect, so no cookie state has a redirect loop.
C38_GuardRedirectsOnceAtMost ==
  /\ [][Served =>
          LET p == app.nav.path
          IN IF ~Ignored(p) /\ p \notin PUBLIC_ROUTES /\ Unauthenticated
             THEN app'.nav = [app.nav EXCEPT !.path = PathLogin, !.redirect = p,
                                            !.hops = @ + 1]
             ELSE IF ~Ignored(p) /\ p \in PUBLIC_ROUTES /\ ~Unauthenticated
             THEN app'.nav = [app.nav EXCEPT !.path = PathRoot, !.redirect = <<>>,
                                            !.hops = @ + 1]
             ELSE app'.nav = [app.nav EXCEPT !.state = "passed"]]_vars
  /\ [](app.nav.hops <= 1)
  /\ (app.nav.state = "requested") ~> (app.nav.state = "passed")

\* a visitor asked for /dashboard and was let through at /login after one
\* redirect that carries /dashboard
C38_Witness ==
  /\ app.nav.state = "passed" /\ app.nav.hops = 1
  /\ app.nav.asked = <<"/", "d", "a", "s", "h", "b", "o", "a", "r", "d">>
  /\ app.nav.path = PathLogin /\ app.nav.redirect = app.nav.asked
  /\ Unauthenticated

====
